---- MODULE Spec2Model ----
(***************************************************************************)
(* Admin log tail sessions of api/server/routes/logs.js:                   *)
(*   GET /conversations                          (kind = "conv")           *)
(*   GET /conversations/:conversationId/messages (kind = "msg")            *)
(* One session is modelled from the arrival of the request to the end of   *)
(* the model horizon, together with the store it reads, the change feed it *)
(* subscribes to, its heartbeat timer and the client's disconnect.         *)
(* `out` is the sequence of res.write calls of the session.                *)
(*                                                                         *)
(* The chat client's streaming hook, client/src/hooks/SSE/useSSE.ts, is    *)
(* modelled by a second specification, ClientSpec: one mounted or          *)
(* unmounted view calling useSSE, the submission atom it reads, the SSE    *)
(* transports it created, the process-wide globalSSEMap and localStorage.  *)
(* Each specification leaves the other one's variables at their initial    *)
(* values.                                                                 *)
(***************************************************************************)
EXTENDS Integers, Sequences, FiniteSets, TLC

\* ---------------------------------------------------------------- bounds
\* identifiers of records
MaxId == 2
\* steps of the environment: a change of the store, an event of the change
\* feed, or the passing of one tick
MaxSteps == 2
\* kinds of store and feed operation that fail in one run
MaxFailures == 1
\* submissions made by the user of the chat client
MaxSub == 2
\* SSE transports created by the chat client
MaxSse == 2
\* frames other than the final one received by the chat client
MaxFrames == 2
\* content frames received on one transport
MaxContent == 3
\* frames the 'message' listener is run for
MaxDispatch == 2
\* calls of submitMessage
MaxCalls == 3
\* calls of fetchLogs by the admin log client
MaxFetch == 3
\* error events of the connections of the admin log client
MaxEsErrors == 3
\* ticks of the clock and changes of the store during recovery polling
MaxPollSteps == 2
\* runs of the polling effect that start polling
MaxPollGen == 2
\* advances of the clock between calls of submitMessage
MaxAdvance == 3
\* 401 responses the chat client receives
MaxRetry == 2
\* fetchConversations: the largest page asked for, the largest store, calls
MaxPage == 3
MaxTotal == 3
MaxPageCalls == 2
\* useChatHelpers: number of setMessages calls
MaxSetCalls == 2

IDS == 1..MaxId

\* ------------------------------------------------------ program constants
HeartbeatMsConversations == 30000
HeartbeatMsMessages == 30000

\* the window of the duplicate-submit guard (useSubmitMessage.ts line 40)
DebounceMs == 1500

\* the recency window of recovery polling (useSubmitMessage.ts line 317)
RecencyWindowMs == 5 * 60 * 1000

\* one model tick is one heartbeat period
TickMs == HeartbeatMsConversations
Ticks(ms) == ms \div TickMs

\* an interval armed with twice the delay
HeartbeatDelaySlow(k) ==
  2 * Ticks(IF k = "conv" THEN HeartbeatMsConversations
            ELSE HeartbeatMsMessages)

\* the delay of the session's setInterval, in ticks (lines 464, 697)
HeartbeatDelay(k) ==
  Ticks(IF k = "conv" THEN HeartbeatMsConversations ELSE HeartbeatMsMessages)

VARIABLES
  kind,              \* "conv" | "msg": which route handles the request
  query,             \* req.query: [all, page, limit]
  search,            \* TRUE iff req.query.search is a non-blank term
  matches,           \* identifiers whose name/email/title match the term
  db,                \* the store: identifiers, least recently written first
  pc,                \* position of the route handler
  totalCount,        \* fetchConversations: totalCount
  conversations,     \* fetchConversations: conversations
  messages,          \* messages session: result of Message.find
  idx,               \* messages session: index of the backlog loop
  out,               \* records written with res.write, in order
  processedIds,      \* processedConversationIds / processedMessageIds
  heartbeatInterval, \* TRUE while the setInterval is armed
  hbNext,            \* time of the next firing of the interval
  lastBeat,          \* time the interval was armed or last fired
  changeStream,      \* Message.watch: "none" | "open" | "errored" | "closed"
  convoChangeStream, \* Conversation.watch, same values
  clients,           \* queryLogger registry
  closeListener,     \* TRUE once req.on('close') is registered
  clientGone,        \* TRUE once the client has disconnected
  ended,             \* TRUE once res.end() was called
  pending,           \* inserts the open subscription still has to deliver
  inflight,          \* change handlers suspended at their await, per id
  titleInflight,     \* title handlers suspended at User.findById
  steps,             \* number of environment steps so far
  now,               \* time in ticks
  openedAt,          \* time the request arrived
  insertedOpen,      \* identifiers inserted while the session was open
  delivered,         \* number of insert steps delivered, per id
  failures,          \* the store and feed operations that have failed
  inflightMiss,      \* suspended list handlers whose event found no match
  liveWrites,        \* live records of a search session: id, match then/now
  fetchedFrom,       \* the matching records as the backlog query read them
  outAtClose,        \* length of out when the client disconnected
  deliveryOrder,     \* messages session: the ids in the order the feed
                     \* delivered the events that started a handler
  overlapped         \* list session: ids not yet seen of which an event
                     \* arrived while a handler of the same id was suspended

VARIABLES
  submission,        \* store.submissionByIndex: the submission, or NoSubmission
  dirty,             \* TRUE while a change of submission awaits its commit
  isSubmitting,      \* store.isSubmittingFamily
  mounted,           \* TRUE while the view that calls useSSE is mounted
  activeSSE,         \* useState activeSSE: a transport, or NoSse
  effectSse,         \* transport of the cleanup the main effect returned
  sses,              \* the SSE objects created: [conv, sub, readyState,
                     \* final, listeners, received, applied, reattachedFrames,
                     \* retries, errored, refreshing]
  globalSSEMap,      \* conversation id -> transport, or NoSse
  localStorage,      \* the keys set: <<"activeSSE", sub>>, <<"sse", sub>>
  aborted,           \* conversation ids abortConversation was called for
  stopped,           \* explicit stops: [sub, sse, live]
  submitted          \* number of submissions made

clientVars == <<submission, dirty, isSubmitting, mounted, activeSSE,
                effectSse, sses, globalSSEMap, localStorage, aborted,
                stopped, submitted>>

reqVars   == <<kind, query, search>>
storeVars == <<db, matches, pending, insertedOpen>>
fetchVars == <<totalCount, conversations, messages, idx>>
timerVars == <<heartbeatInterval, hbNext, lastBeat>>
subVars   == <<changeStream, convoChangeStream>>
connVars  == <<clients, closeListener, clientGone, ended>>
liveVars  == <<processedIds, inflight, titleInflight>>
histVars  == <<delivered, failures>>
obsVars   == <<inflightMiss, liveWrites, fetchedFrom, outAtClose,
               deliveryOrder, overlapped>>
serverVars == <<reqVars, storeVars, fetchVars, timerVars, subVars, connVars,
                liveVars, histVars, obsVars, pc, out, steps, now, openedAt>>

VARIABLES
  frames,            \* content frames received on a transport, in order
  contentCalls,      \* the frames contentHandler was called with, in order
  content,           \* content parts of the response message, by index
  textIndex,         \* let textIndex of the main effect (line 155)
  replayed           \* TRUE iff the last frame repeated the one before it

contentVars == <<frames, contentCalls, content, textIndex, replayed>>

VARIABLES
  frame,             \* the fields of the last frame that are not null
  handlerCalls,      \* the handlers the listener called for it, in order
  dispatched         \* number of frames the listener has run for

dispatchVars == <<frame, handlerCalls, dispatched>>

VARIABLES
  lastSubmitRef,     \* useRef lastSubmitRef: [text, ts]
  clock,             \* Date.now(), in ms since the hook was mounted
  askCalls,          \* the texts ask was called with, in order
  calls,             \* number of submitMessage calls made
  advances,          \* number of times the clock was advanced
  input,             \* data.text of the last call, or NoData
  accepted           \* text and time of the last call that called ask

submitVars == <<lastSubmitRef, clock, askCalls, calls, advances, input,
                accepted>>

VARIABLES
  ess,               \* the EventSource objects created: their readyState
  esRef,             \* esRef.current: a connection, or NoEs
  isClosingRef,      \* isClosingRef.current
  loading,           \* useState loading
  error,             \* TRUE iff useState error is not null
  connected,         \* useState connected
  fetches,           \* number of fetchLogs calls made
  esErrors           \* number of error events of the connections

logsVars == <<ess, esRef, isClosingRef, loading, error, connected, fetches,
              esErrors>>

VARIABLES
  cached,            \* _messages: the messages of the conversation in the
                     \* query cache
  remote,            \* the messages of the conversation in the store
  pollClock,         \* new Date().getTime(), in ms
  helperMounted,     \* TRUE while the view that calls useChatHelpers is
                     \* mounted
  recovering,        \* isSubmitting as the polling effect sets it
  messagesDirty,     \* TRUE while a change of _messages awaits its commit
  hasCleanup,        \* TRUE iff the last run of the effect returned a cleanup
  pollInterval,      \* TRUE while the setInterval is armed
  timeout,           \* TRUE while the setTimeout is armed
  pollGen,           \* number of runs of the effect that started polling
  pollTarget,        \* latestUnfinishedMessage.messageId of the last such run
  refetches,         \* refetchQueries promises pending: [gen, target]
  pollEnded,         \* why the polling last started has ended, or "no"
  pollSteps          \* ticks of the clock and changes of the store so far

pollVars == <<cached, remote, pollClock, helperMounted, recovering,
              messagesDirty, hasCleanup, pollInterval, timeout, pollGen,
              pollTarget, refetches, pollEnded, pollSteps>>

VARIABLES
  pageQuery,         \* req.query of the last fetchConversations call
  pageStore,         \* the conversations of the store, oldest update first
  pageResult,        \* what the call returned: conversations and pagination
  pageCalls          \* number of fetchConversations calls made

pageVars == <<pageQuery, pageStore, pageResult, pageCalls>>

VARIABLES
  routeId,           \* useParams conversationId: 'new' or a conversation id
  storedConvo,       \* conversationId of LAST_CONVO_SETUP_0, or NoConvo
  conversation,      \* conversationId of the conversation atom, or NoConvo
  startupConfig,     \* TRUE iff useGetStartupConfig has data
  endpointsData,     \* TRUE iff endpointsQuery.data is set
  modelsData,        \* modelsQuery.data: "none", "initial" or "loaded"
  convoData,         \* TRUE iff initialConvoQuery.data is set
  assistantLists,    \* TRUE iff assistantListMap holds both assistants lists
  processedConversationId,  \* useRef processedConversationId
  hasSetConversation,       \* hasSetConversation.current
  routeDirty         \* TRUE while the initialisation effect awaits its run

routeVars == <<routeId, storedConvo, conversation, startupConfig,
               endpointsData, modelsData, convoData, assistantLists,
               processedConversationId, hasSetConversation, routeDirty>>

VARIABLES
  cache,             \* the query cache: [QueryKeys.messages, key] -> list
  paramId,           \* the paramId argument of useChatHelpers
  conversationId,    \* conversation?.conversationId of the conversation atom
  lastMessages,      \* the list of the last setMessages call
  writtenKeys,       \* the cache keys that call wrote
  readBack,          \* what the last getMessages call returned
  cachePc,           \* "set" after setMessages, "got" after a getMessages
                     \* that follows it directly, else "idle"
  setCalls           \* number of setMessages calls made

cacheVars == <<cache, paramId, conversationId, lastMessages, writtenKeys,
               readBack, cachePc, setCalls>>

baseVars == <<serverVars, clientVars, contentVars, dispatchVars, submitVars,
              logsVars, pollVars>>
moreVars == <<pageVars, routeVars, cacheVars>>
auxVars == <<contentVars, dispatchVars, submitVars, logsVars, pollVars,
             moreVars>>
exceptContent  == <<serverVars, clientVars, dispatchVars, submitVars,
                    logsVars, pollVars, moreVars>>
exceptDispatch == <<serverVars, clientVars, contentVars, submitVars,
                    logsVars, pollVars, moreVars>>
exceptSubmit   == <<serverVars, clientVars, contentVars, dispatchVars,
                    logsVars, pollVars, moreVars>>
exceptLogs     == <<serverVars, clientVars, contentVars, dispatchVars,
                    submitVars, pollVars, moreVars>>
exceptPoll     == <<serverVars, clientVars, contentVars, dispatchVars,
                    submitVars, logsVars, moreVars>>
vars == <<serverVars, clientVars, auxVars>>

\* ---------------------------------------------------------------- helpers
Min(a, b) == IF a < b THEN a ELSE b
Max(a, b) == IF a > b THEN a ELSE b

Range(s) == {s[j] : j \in 1..Len(s)}
Reverse(s) == [j \in 1..Len(s) |-> s[Len(s) + 1 - j]]
Failed(ok, name) == IF ok THEN failures ELSE failures \cup {name}
\* the outcomes of an awaited store operation (TRUE: it returns) and of
\* opening a change stream, within the failure bound
MayFail  == Cardinality(failures) < MaxFailures
Outcomes == IF MayFail THEN BOOLEAN ELSE {TRUE}
WatchOutcomes == IF MayFail THEN {"open", "throw"} ELSE {"open"}
Without(s, x) == LET Keep(y) == y # x IN SelectSeq(s, Keep)

Rec(t, id, count, total) ==
  [type |-> t, id |-> id, count |-> count, total |-> total]

Retry              == Rec("retry", 0, 0, 0)
InitRec(cnt, tot)  == Rec("init", 0, cnt, tot)
HistoricalComplete == Rec("historical_complete", 0, 0, 0)
HeartbeatRec       == Rec("heartbeat", 0, 0, 0)
ErrorRec           == Rec("error", 0, 0, 0)
HistoricalRec(k, id) ==
  Rec(IF k = "conv" THEN "historical_conversation" ELSE "historical_message",
      id, 0, 0)
RealtimeRec(k, id) ==
  Rec(IF k = "conv" THEN "realtime_conversation" ELSE "realtime_message",
      id, 0, 0)
\* the two conversation_update payloads: count carries the messageCount of
\* the tokens update (at least 1), the title update has none
TokenUpdateRec(id) == Rec("conversation_update", id, 1, 0)
TitleUpdateRec(id) == Rec("conversation_update", id, 0, 0)

\* the registry of the session multiplexer (queryLogger): registration is
\* idempotent, unregistering an absent session is a no-op
addClient(registry, res)    == registry \cup {res}
removeClient(registry, res) == registry \ {res}

\* ------------------------------------------------------ fetchConversations
PageNum(q) == Max(q.page, 1)
LimitQ(q)  == Min(Max(q.limit, 1), 100)
Skip(q)    == IF q.all THEN 0 ELSE (PageNum(q) - 1) * LimitQ(q)
\* the limit of a paged request, whatever `all` says
LimitNumPaged(q, total) == LimitQ(q)

LimitNum(q, total) == IF q.all THEN Max(total, 1) ELSE LimitQ(q)

\* Math.ceil(a / b) for a >= 0, b >= 1
CeilDiv(a, b) == (a + b - 1) \div b
TotalPages(q, total) == Max(1, CeilDiv(total, LimitNum(q, total)))

\* the conversations the pipeline keeps: the userMatchExpr stage, when present
Matching(store, srch, m) ==
  LET Keep(c) == (~srch) \/ c \in m IN SelectSeq(store, Keep)

\* { $sort: { updatedAt: -1 } }, { $skip }, { $limit }
buildConversationsAggregation(store, srch, m, skip, limitNum) ==
  LET sorted == Reverse(Matching(store, srch, m))
  IN  SubSeq(sorted, skip + 1, Min(skip + limitNum, Len(sorted)))

\* ------------------------------------------------------------------- Init
QuerySet ==
  { [all |-> TRUE,  page |-> 1, limit |-> 10],
    [all |-> TRUE,  page |-> 2, limit |-> 1],
    [all |-> FALSE, page |-> 1, limit |-> 1] }

\* the request that is also made with a search term
SearchQuery == [all |-> TRUE, page |-> 1, limit |-> 10]

InitialStores == { <<>>, <<1>>, <<1, 2>> }

\* sse.js readyState values
CONNECTING == 0
OPEN       == 1
CLOSED     == 2

NoSse == 0
NoEs == 0
\* Constants.NEW_CONVO, and the absence of a conversation
NEW_CONVO == "new"
NoConvo == "null"
\* a call of submitMessage without data
NoData == <<"undefined">>

\* content frames: the index of the content part and its text
ContentIndexes == {0, 1}
ContentTexts   == {"a", "ab", "abc"}
ContentFrames  == [index : ContentIndexes, text : ContentTexts]
NoText  == ""
NoIndex == -1
\* conversation ids of submissions; a new conversation has none (line 115)
NewConvo == ""
ConvIds  == {NewConvo, "c1"}
NoSubmission == [id |-> 0, conv |-> NewConvo]

\* the chat client before the first submission, its view mounted
ClientStart ==
  /\ submission = NoSubmission
  /\ dirty = FALSE
  /\ isSubmitting = FALSE
  /\ mounted = TRUE
  /\ activeSSE = NoSse
  /\ effectSse = NoSse
  /\ sses = <<>>
  /\ globalSSEMap = [c \in ConvIds |-> NoSse]
  /\ localStorage = {}
  /\ aborted = {}
  /\ stopped = {}
  /\ submitted = 0

\* the request of a session and the store it meets
InitRequest ==
  /\ kind \in {"conv", "msg"}
  /\ query \in (IF kind = "conv" THEN QuerySet
                ELSE {[all |-> FALSE, page |-> 1, limit |-> 10]})
  /\ search \in (IF kind = "conv" /\ query = SearchQuery THEN BOOLEAN
                 ELSE {FALSE})
  /\ matches = (IF search THEN {1} ELSE IDS)
  /\ db \in InitialStores

\* no request has arrived
NoRequest ==
  /\ kind = "conv"
  /\ query = SearchQuery
  /\ search = FALSE
  /\ matches = IDS
  /\ db = <<>>

\* the session before its route handler runs
SessionStart ==
  /\ pc = "request"
  /\ totalCount = 0
  /\ conversations = <<>>
  /\ messages = <<>>
  /\ idx = 0
  /\ out = <<>>
  /\ processedIds = {}
  /\ heartbeatInterval = FALSE
  /\ hbNext = 0
  /\ lastBeat = 0
  /\ changeStream = "none"
  /\ convoChangeStream = "none"
  /\ clients = {}
  /\ closeListener = FALSE
  /\ clientGone = FALSE
  /\ ended = FALSE
  /\ pending = {}
  /\ inflight = [i \in IDS |-> 0]
  /\ titleInflight = <<>>
  /\ steps = 0
  /\ now = 0
  /\ openedAt = 0
  /\ insertedOpen = {}
  /\ delivered = [i \in IDS |-> 0]
  /\ failures = {}
  /\ inflightMiss = [i \in IDS |-> 0]
  /\ liveWrites = {}
  /\ fetchedFrom = <<>>
  /\ outAtClose = 0
  /\ deliveryOrder = <<>>
  /\ overlapped = {}

\* a transport before its first content frame
ContentStart ==
  /\ frames = <<>>
  /\ contentCalls = <<>>
  /\ content = [i \in ContentIndexes |-> NoText]
  /\ textIndex = NoIndex
  /\ replayed = FALSE

\* the 'message' listener before its first frame
DispatchStart ==
  /\ frame = {}
  /\ handlerCalls = <<>>
  /\ dispatched = 0

\* useSubmitMessage before its first call (line 26)
SubmitStart ==
  /\ lastSubmitRef = [text |-> <<>>, ts |-> 0]
  /\ clock = 0
  /\ askCalls = <<>>
  /\ calls = 0
  /\ advances = 0
  /\ input = NoData
  /\ accepted = [text |-> <<>>, ts |-> 0]

\* useQueryLogs before its first effect (part_000 lines 38-46)
LogsStart ==
  /\ ess = <<>>
  /\ esRef = NoEs
  /\ isClosingRef = FALSE
  /\ loading = TRUE
  /\ error = FALSE
  /\ connected = FALSE
  /\ fetches = 0
  /\ esErrors = 0

\* useChatHelpers before its view mounts, for a conversation whose messages
\* are ms and a clock that reads t
PollStart(ms, t) ==
  /\ cached = ms
  /\ remote = ms
  /\ pollClock = t
  /\ helperMounted = FALSE
  /\ recovering = FALSE
  /\ messagesDirty = FALSE
  /\ hasCleanup = FALSE
  /\ pollInterval = FALSE
  /\ timeout = FALSE
  /\ pollGen = 0
  /\ pollTarget = 0
  /\ refetches = {}
  /\ pollEnded = "no"
  /\ pollSteps = 0

\* fetchConversations before its first call
PageStart ==
  /\ pageQuery = [all |-> FALSE, page |-> 1, limit |-> 10]
  /\ pageStore = <<>>
  /\ pageResult = NoData
  /\ pageCalls = 0

\* ChatRoute when it mounts on the route id, with what the browser and the
\* stores hold then: the stored conversation, the conversation atom, the
\* models data
RouteStart(id, stored, conv, models) ==
  /\ routeId = id
  /\ storedConvo = stored
  /\ conversation = conv
  /\ startupConfig = FALSE
  /\ endpointsData = FALSE
  /\ modelsData = models
  /\ convoData = FALSE
  /\ assistantLists = FALSE
  /\ processedConversationId = ""
  /\ hasSetConversation = FALSE
  /\ routeDirty = TRUE

\* the argument of a useChatHelpers call without paramId
NoParam == "undefined"
\* the keys of the message lists in the query cache
CacheKeys == {"", NEW_CONVO, "c1", "c2"}

\* getQueryData of a key that was never set
NoMessages == <<[messageId |-> 0, conversationId |-> NoConvo]>>

\* useChatHelpers on an empty query cache
CacheStart(p, c) ==
  /\ cache = [k \in CacheKeys |-> NoMessages]
  /\ paramId = p
  /\ conversationId = c
  /\ lastMessages = <<>>
  /\ writtenKeys = {}
  /\ readBack = NoMessages
  /\ cachePc = "idle"
  /\ setCalls = 0

MoreStart ==
  /\ PageStart
  /\ RouteStart(NEW_CONVO, NoConvo, NoConvo, "none")
  /\ CacheStart(NoParam, NoConvo)

AuxStart ==
  /\ ContentStart /\ DispatchStart /\ SubmitStart /\ LogsStart
  /\ PollStart(<<>>, 0)
  /\ MoreStart

Init == InitRequest /\ SessionStart /\ ClientStart /\ AuxStart

\* ------------------------------------------------- conversation-list route
\* lines 451-471: preamble, heartbeat interval armed, fetchConversations called
ConvOpen ==
  /\ kind = "conv" /\ pc = "request"
  /\ out' = Append(out, Retry)
  /\ heartbeatInterval' = TRUE
  /\ hbNext' = now + HeartbeatDelay(kind)
  /\ lastBeat' = now
  /\ openedAt' = now
  /\ pc' = "count"
  /\ UNCHANGED <<clientVars, auxVars>>
  /\ UNCHANGED obsVars
  /\ UNCHANGED <<reqVars, storeVars, fetchVars, subVars, connVars, liveVars,
                 histVars, steps, now>>

\* fetchConversations, count pipeline (lines 167-174)
ConvCount ==
  /\ kind = "conv" /\ pc = "count"
  /\ \E ok \in Outcomes :
       /\ totalCount' = IF ok THEN Len(Matching(db, search, matches)) ELSE 0
       /\ failures' = Failed(ok, "count")
  /\ pc' = "fetch"
  /\ UNCHANGED <<clientVars, auxVars>>
  /\ UNCHANGED obsVars
  /\ UNCHANGED <<reqVars, storeVars, conversations, messages, idx, timerVars,
                 subVars, connVars, liveVars, delivered, out, steps, now,
                 openedAt>>

\* Message.watch / Conversation.watch of the conversation-list session
\* (lines 500-501, 568, 611-615): the records written and the two handles
ConvSubscribe(o, w1, w2) ==
  IF w1 = "throw"
    THEN [o |-> Append(o, ErrorRec), cs |-> "none", ccs |-> "none"]
  ELSE IF w2 = "throw"
    THEN [o |-> Append(o, ErrorRec), cs |-> "open", ccs |-> "none"]
  ELSE [o |-> o, cs |-> "open", ccs |-> "open"]

\* the backlog loop of the conversation-list session (lines 473-498)
ConvBacklog(o, convos, total) ==
  o \o << InitRec(Len(convos), total) >>
    \o [j \in 1..Len(convos) |-> HistoricalRec("conv", convos[j])]
    \o << HistoricalComplete >>

\* the fetch pipeline runs on the store or fails (lines 176-187)
ConvFetch ==
  /\ kind = "conv" /\ pc = "fetch"
  /\ \E ok \in Outcomes :
       /\ conversations' =
            IF ok
              THEN buildConversationsAggregation(db, search, matches,
                     Skip(query), LimitNum(query, totalCount))
              ELSE <<>>
       /\ failures' = Failed(ok, "fetch")
       /\ fetchedFrom' = IF ok THEN Matching(db, search, matches)
                               ELSE fetchedFrom
  /\ pc' = "emit"
  /\ UNCHANGED <<clientVars, auxVars>>
  /\ UNCHANGED <<inflightMiss, liveWrites, outAtClose, deliveryOrder,
                 overlapped>>
  /\ UNCHANGED <<reqVars, storeVars, totalCount, messages, idx, timerVars,
                 subVars, connVars, liveVars, delivered, out, steps, now,
                 openedAt>>

\* fetchConversations returns; lines 473-626 run without an await: init,
\* backlog loop, marker, subscriptions, registration
ConvEmit ==
  /\ kind = "conv" /\ pc = "emit"
  /\ \E w1 \in WatchOutcomes, w2 \in WatchOutcomes :
       LET sub == ConvSubscribe(ConvBacklog(out, conversations, totalCount),
                                w1, w2)
       IN  /\ out' = sub.o
           /\ changeStream' = sub.cs
           /\ convoChangeStream' = sub.ccs
           /\ failures' = failures
                \cup (IF sub.cs = "none" THEN {"watch"} ELSE {})
                \cup (IF sub.cs = "open" /\ sub.ccs = "none"
                        THEN {"convoWatch"} ELSE {})
  /\ processedIds' = Range(conversations)
  /\ clients' = addClient(clients, "res")
  /\ closeListener' = TRUE
  /\ pc' = "live"
  /\ UNCHANGED <<clientVars, auxVars>>
  /\ UNCHANGED obsVars
  /\ UNCHANGED <<reqVars, storeVars, fetchVars, timerVars, clientGone, ended,
                 inflight, titleInflight, delivered, steps, now, openedAt>>

\* ----------------------------------------------------------- messages route
\* lines 694-738: heartbeat interval, Message.watch, registration
MsgLiveSetup(o, f) ==
  /\ \E w \in (IF Cardinality(f) < MaxFailures THEN {"open", "throw"}
                ELSE {"open"}) :
       /\ changeStream' = IF w = "open" THEN "open" ELSE "none"
       /\ failures' = IF w = "open" THEN f ELSE f \cup {"watch"}
  /\ out' = o
  /\ heartbeatInterval' = TRUE
  /\ hbNext' = now + HeartbeatDelay(kind)
  /\ lastBeat' = now
  /\ processedIds' = {}
  /\ clients' = addClient(clients, "res")
  /\ closeListener' = TRUE
  /\ pc' = "live"
  /\ UNCHANGED <<convoChangeStream, clientGone, ended>>

\* lines 630-642: preamble, Message.find called
MsgOpen ==
  /\ kind = "msg" /\ pc = "request"
  /\ out' = Append(out, Retry)
  /\ openedAt' = now
  /\ pc' = "find"
  /\ UNCHANGED <<clientVars, auxVars>>
  /\ UNCHANGED obsVars
  /\ UNCHANGED <<reqVars, storeVars, fetchVars, timerVars, subVars, connVars,
                 liveVars, histVars, steps, now>>

\* Message.find returns or throws (lines 642-645, 688-692)
MsgFind ==
  /\ kind = "msg" /\ pc = "find"
  /\ \E ok \in Outcomes :
       IF ~ok
         THEN /\ MsgLiveSetup(Append(out, InitRec(0, 0)),
                              failures \cup {"find"})
              /\ UNCHANGED <<messages, idx>>
       ELSE IF db = <<>>
         THEN /\ MsgLiveSetup(out \o << InitRec(0, 0), HistoricalComplete >>,
                              failures)
              /\ messages' = db
              /\ UNCHANGED idx
       ELSE /\ messages' = db
            /\ pc' = "users"
            /\ UNCHANGED <<idx, out, timerVars, subVars, connVars,
                           processedIds, failures>>
  /\ fetchedFrom' = db
  /\ UNCHANGED <<clientVars, auxVars>>
  /\ UNCHANGED <<inflightMiss, liveWrites, outAtClose, deliveryOrder,
                 overlapped>>
  /\ UNCHANGED <<reqVars, storeVars, totalCount, conversations, inflight,
                 titleInflight, delivered, steps, now, openedAt>>

\* User.find returns or throws (lines 656-674, 688-692); the users of the
\* messages are taken to be ObjectId strings, so the lookup is awaited
MsgUsers ==
  /\ kind = "msg" /\ pc = "users"
  /\ \E ok \in Outcomes :
       IF ok
         THEN /\ out' = Append(out, InitRec(Len(messages), 0))
              /\ idx' = 1
              /\ pc' = "backlog"
              /\ UNCHANGED <<timerVars, subVars, connVars, processedIds,
                             failures>>
         ELSE /\ MsgLiveSetup(Append(out, InitRec(0, 0)),
                              failures \cup {"users"})
              /\ UNCHANGED idx
  /\ UNCHANGED <<clientVars, auxVars>>
  /\ UNCHANGED obsVars
  /\ UNCHANGED <<reqVars, storeVars, totalCount, conversations, messages,
                 inflight, titleInflight, delivered, steps, now, openedAt>>

\* one iteration of the backlog loop: buildLogData returns or throws
\* (lines 676-684); after the last one the marker and the live setup follow
MsgBacklog ==
  /\ kind = "msg" /\ pc = "backlog"
  /\ \E ok \in Outcomes :
       LET o == IF ok
                  THEN Append(out, HistoricalRec("msg", messages[idx]))
                  ELSE out
       IN  IF idx < Len(messages)
             THEN /\ out' = o
                  /\ idx' = idx + 1
                  /\ failures' = Failed(ok, "build")
                  /\ UNCHANGED <<pc, timerVars, subVars, connVars,
                                 processedIds>>
             ELSE /\ MsgLiveSetup(Append(o, HistoricalComplete),
                                  Failed(ok, "build"))
                  /\ UNCHANGED idx
  /\ UNCHANGED <<clientVars, auxVars>>
  /\ UNCHANGED obsVars
  /\ UNCHANGED <<reqVars, storeVars, totalCount, conversations, messages,
                 inflight, titleInflight, delivered, steps, now, openedAt>>

\* ------------------------------------------------------------ environment
\* a record is written to the store: a new message of the conversation
\* (messages session) or a new message in conversation i (list session).
\* The store is followed from the arrival of the request to res.end().
Insert(i) ==
  /\ steps < MaxSteps
  /\ pc # "request" /\ ~ended
  /\ kind = "msg" => i \notin Range(db)
  /\ db' = Append(Without(db, i), i)
  /\ pending' = IF changeStream = "open" THEN pending \cup {i} ELSE pending
  /\ insertedOpen' = IF pc # "request" /\ ~clientGone
                       THEN insertedOpen \cup {i} ELSE insertedOpen
  /\ steps' = steps + 1
  /\ UNCHANGED <<clientVars, auxVars>>
  /\ UNCHANGED obsVars
  /\ UNCHANGED <<reqVars, matches, fetchVars, timerVars, subVars, connVars,
                 liveVars, histVars, pc, out, now, openedAt>>

\* the client closes the connection; req emits 'close' once, and only a
\* listener registered by then runs (lines 619-626, 732-738)
ClientDisconnect ==
  /\ pc # "request" /\ ~clientGone
  /\ clientGone' = TRUE
  /\ IF closeListener
       THEN /\ clients' = removeClient(clients, "res")
            /\ changeStream' =
                 IF changeStream # "none" THEN "closed" ELSE changeStream
            /\ convoChangeStream' =
                 IF convoChangeStream # "none" THEN "closed"
                 ELSE convoChangeStream
            /\ heartbeatInterval' = FALSE
            /\ ended' = TRUE
       ELSE UNCHANGED <<clients, subVars, heartbeatInterval, ended>>
  /\ outAtClose' = Len(out)
  /\ UNCHANGED <<clientVars, auxVars>>
  /\ UNCHANGED <<inflightMiss, liveWrites, fetchedFrom, deliveryOrder,
                 overlapped>>
  /\ UNCHANGED <<reqVars, storeVars, fetchVars, hbNext, lastBeat,
                 closeListener, liveVars, histVars, pc, out, steps, now,
                 openedAt>>

\* the change feed fails after it was opened; the 'error' listeners only log
\* (lines 564-566, 608-610, 723-725)
ChangeStreamError ==
  /\ steps < MaxSteps
  /\ MayFail
  /\ \/ /\ changeStream = "open"
        /\ changeStream' = "errored"
        /\ UNCHANGED convoChangeStream
     \/ /\ convoChangeStream = "open"
        /\ convoChangeStream' = "errored"
        /\ UNCHANGED changeStream
  /\ steps' = steps + 1
  /\ failures' = failures \cup {"stream"}
  /\ UNCHANGED <<clientVars, auxVars>>
  /\ UNCHANGED obsVars
  /\ UNCHANGED <<reqVars, storeVars, fetchVars, timerVars, connVars,
                 liveVars, delivered, pc, out, now, openedAt>>

\* ------------------------------------------------------------ live handlers
\* changeStream.on('change'), up to its first await.  The feed delivers an
\* insert event of a stored record: a pending one, or a repeated delivery.
\* messages session, lines 709-715; list session, lines 504-509
ChangeEvent(i) ==
  /\ steps < MaxSteps
  /\ changeStream = "open"
  /\ i \in Range(db)
  /\ pending' = pending \ {i}
  /\ delivered' = [delivered EXCEPT ![i] = @ + 1]
  /\ steps' = steps + 1
  /\ IF kind = "msg"
       THEN IF i \in processedIds
              THEN UNCHANGED <<processedIds, inflight>>
              ELSE /\ processedIds' = processedIds \cup {i}
                   /\ inflight' = [inflight EXCEPT ![i] = @ + 1]
       ELSE /\ inflight' = [inflight EXCEPT ![i] = @ + 1]
            /\ UNCHANGED processedIds
  /\ inflightMiss' = IF kind = "conv" /\ search /\ i \notin matches
                        THEN [inflightMiss EXCEPT ![i] = @ + 1]
                        ELSE inflightMiss
  /\ deliveryOrder' = IF kind = "msg" /\ i \notin processedIds
                         THEN Append(deliveryOrder, i)
                         ELSE deliveryOrder
  /\ overlapped' = IF kind = "conv" /\ inflight[i] > 0
                        /\ i \notin processedIds
                      THEN overlapped \cup {i}
                      ELSE overlapped
  /\ UNCHANGED <<clientVars, auxVars>>
  /\ UNCHANGED <<liveWrites, fetchedFrom, outAtClose>>
  /\ UNCHANGED <<reqVars, db, matches, insertedOpen, fetchVars, timerVars,
                 subVars, connVars, titleInflight, failures, pc, out, now,
                 openedAt>>

\* messages session: buildLogData returns or throws (lines 714-720)
MsgChangeDone(i) ==
  /\ kind = "msg" /\ inflight[i] > 0
  /\ inflight' = [inflight EXCEPT ![i] = @ - 1]
  /\ \E ok \in Outcomes :
       /\ out' = IF ok THEN Append(out, RealtimeRec("msg", i)) ELSE out
       /\ failures' = Failed(ok, "lookup")
  /\ UNCHANGED <<clientVars, auxVars>>
  /\ UNCHANGED obsVars
  /\ UNCHANGED <<reqVars, storeVars, fetchVars, timerVars, subVars, connVars,
                 processedIds, titleInflight, delivered, pc, steps, now,
                 openedAt>>

\* the same records without the processedConversationIds test
ConvLiveRecordsNoDedup(o, seen, i) ==
  o \o << TokenUpdateRec(i), RealtimeRec("conv", i) >>

\* the same records with the processedConversationIds test made when the
\* event arrives, before the await: the handlers of events that arrived
\* while the conversation was not yet seen all write the summary
ConvLiveRecordsTestAtEvent(o, seen, i) ==
  IF i \in seen /\ i \notin overlapped
    THEN Append(o, TokenUpdateRec(i))
    ELSE o \o << TokenUpdateRec(i), RealtimeRec("conv", i) >>

\* list session: the records written once the summary aggregation returned
\* a summary that passed the search test (lines 531-558)
ConvLiveRecords(o, seen, i) ==
  IF i \in seen
    THEN Append(o, TokenUpdateRec(i))
    ELSE o \o << TokenUpdateRec(i), RealtimeRec("conv", i) >>

\* the summary is forwarded whatever the search term
ForwardsInsertUnfiltered(store, srch, m, i) == i \in Range(store)

\* list session: the summary aggregation, which applies userMatchExpr, found
\* the conversation, and the summary passed the search test (lines 509-529)
ForwardsInsert(store, srch, m, i) ==
  LET summary == i \in Range(Matching(store, srch, m))
      passes  == (~srch) \/ i \in m
  IN  summary /\ passes

\* list session: Message.aggregate returns or throws (lines 509-561); miss
\* says whether the handler that resumes is one whose event arrived while
\* the conversation did not match the search term
ConvChangeDone(i) ==
  /\ kind = "conv" /\ inflight[i] > 0
  /\ inflight' = [inflight EXCEPT ![i] = @ - 1]
  /\ \E ok \in Outcomes, miss \in BOOLEAN :
       /\ IF miss THEN inflightMiss[i] > 0
                  ELSE inflight[i] > inflightMiss[i]
       /\ inflightMiss' = IF miss THEN [inflightMiss EXCEPT ![i] = @ - 1]
                                  ELSE inflightMiss
       /\ failures' = Failed(ok, "lookup")
       /\ IF ok /\ ForwardsInsert(db, search, matches, i)
            THEN /\ out' = ConvLiveRecords(out, processedIds, i)
                 /\ processedIds' = processedIds \cup {i}
                 /\ liveWrites' =
                      IF search
                        THEN liveWrites \cup
                               {[id |-> i, atEvent |-> ~miss,
                                 atLookup |-> i \in matches]}
                        ELSE liveWrites
            ELSE UNCHANGED <<out, processedIds, liveWrites>>
  /\ UNCHANGED <<clientVars, auxVars>>
  /\ UNCHANGED <<fetchedFrom, outAtClose, deliveryOrder, overlapped>>
  /\ UNCHANGED <<reqVars, storeVars, fetchVars, timerVars, subVars, connVars,
                 titleInflight, delivered, pc, steps, now, openedAt>>

\* the title of conversation i is updated; m says whether the conversation
\* matches the search term afterwards (by its new title, or by the name or
\* email of its user).  convoChangeStream.on('change') runs up to
\* User.findById when a search term is set, else to its end (lines 570-602)
TitleUpdate(i, m) ==
  /\ steps < MaxSteps
  /\ pc # "request" /\ ~ended
  /\ kind = "conv"
  /\ i \in Range(db)
  /\ search \/ m
  /\ steps' = steps + 1
  /\ matches' = IF ~search THEN matches
                ELSE IF m THEN matches \cup {i} ELSE matches \ {i}
  /\ IF convoChangeStream # "open"
       THEN UNCHANGED <<out, titleInflight>>
     ELSE IF search
       THEN /\ titleInflight' = Append(titleInflight, [id |-> i, match |-> m])
            /\ UNCHANGED out
     ELSE /\ out' = Append(out, TitleUpdateRec(i))
          /\ UNCHANGED titleInflight
  /\ UNCHANGED <<clientVars, auxVars>>
  /\ UNCHANGED obsVars
  /\ UNCHANGED <<reqVars, db, pending, insertedOpen, fetchVars, timerVars,
                 subVars, connVars, processedIds, inflight, histVars, pc, now,
                 openedAt>>

\* User.findById of a title handler returns or throws; the update is written
\* when name, email or the event's title match the term (lines 581-605)
TitleDone(j) ==
  /\ j \in 1..Len(titleInflight)
  /\ titleInflight' = [n \in 1..(Len(titleInflight) - 1) |->
                         IF n < j THEN titleInflight[n]
                         ELSE titleInflight[n + 1]]
  /\ \E ok \in Outcomes :
       /\ out' = IF ok /\ titleInflight[j].match
                   THEN Append(out, TitleUpdateRec(titleInflight[j].id))
                   ELSE out
       /\ liveWrites' =
            IF ok /\ titleInflight[j].match
              THEN liveWrites \cup
                     {[id |-> titleInflight[j].id,
                       atEvent |-> titleInflight[j].match,
                       atLookup |-> titleInflight[j].match]}
              ELSE liveWrites
       /\ failures' = Failed(ok, "lookup")
  /\ UNCHANGED <<clientVars, auxVars>>
  /\ UNCHANGED <<inflightMiss, fetchedFrom, outAtClose, deliveryOrder,
                 overlapped>>
  /\ UNCHANGED <<reqVars, storeVars, fetchVars, timerVars, subVars, connVars,
                 processedIds, inflight, delivered, pc, steps, now, openedAt>>

\* ------------------------------------------------------------------ timers
\* the setInterval callback (lines 461-464, 694-697)
Heartbeat ==
  /\ heartbeatInterval /\ now = hbNext
  /\ out' = Append(out, HeartbeatRec)
  /\ lastBeat' = now
  /\ hbNext' = now + HeartbeatDelay(kind)
  /\ UNCHANGED <<clientVars, auxVars>>
  /\ UNCHANGED obsVars
  /\ UNCHANGED <<reqVars, storeVars, fetchVars, heartbeatInterval, subVars,
                 connVars, liveVars, histVars, pc, steps, now, openedAt>>

\* time passes between the arrival of the request and res.end(); an armed
\* interval fires before time moves past its deadline
Tick ==
  /\ steps < MaxSteps
  /\ pc # "request" /\ ~ended
  /\ heartbeatInterval => now < hbNext
  /\ now' = now + 1
  /\ steps' = steps + 1
  /\ UNCHANGED <<clientVars, auxVars>>
  /\ UNCHANGED obsVars
  /\ UNCHANGED <<reqVars, storeVars, fetchVars, timerVars, subVars, connVars,
                 liveVars, histVars, pc, out, openedAt>>

Next ==
  \/ ConvOpen \/ ConvCount \/ ConvFetch \/ ConvEmit
  \/ MsgOpen \/ MsgFind \/ MsgUsers \/ MsgBacklog
  \/ ClientDisconnect
  \/ ChangeStreamError
  \/ \E i \in IDS : Insert(i)
  \/ \E i \in IDS : ChangeEvent(i)
  \/ \E i \in IDS : MsgChangeDone(i)
  \/ \E i \in IDS : ConvChangeDone(i)
  \/ \E i \in IDS, m \in BOOLEAN : TitleUpdate(i, m)
  \/ \E j \in 1..MaxSteps : TitleDone(j)
  \/ Heartbeat
  \/ Tick

Spec == Init /\ [][Next]_vars

\* ============================================================ chat client
\* client/src/hooks/SSE/useSSE.ts

Sses == 1..Len(sses)
Live(t) == sses[t].readyState \in {CONNECTING, OPEN}
\* connecting or open, the final frame not yet delivered
Streaming(t) == Live(t) /\ ~sses[t].final

SubmissionKey(s) == <<"activeSSE", s>>
\* one 'open' marker shared by every message
SseKeyShared(s)  == <<"sse", 0>>
SseKey(s)        == <<"sse", s>>

\* the cleanup function the main effect returned for transport t (lines
\* 360-372), applied to the registry map
Cleanup(map, t) ==
  IF t = NoSse THEN map
  ELSE IF sses[t].conv # NewConvo /\ sses[t].readyState = OPEN
    THEN [map EXCEPT ![sses[t].conv] = t]
  ELSE IF sses[t].readyState = CLOSED
    THEN [map EXCEPT ![sses[t].conv] = NoSse]
  ELSE map

\* sum of the field fld over the transports of ss
RECURSIVE Total(_, _)
Total(ss, fld) ==
  IF ss = <<>> THEN 0
  ELSE ss[Len(ss)][fld] + Total(SubSeq(ss, 1, Len(ss) - 1), fld)

\* a reattach path that registers the 'message' listener again
ReattachRelisten(ss, t) == [ss EXCEPT ![t].listeners = @ + 1]

\* the reattach path (lines 126-131) adds no listener to the transport
Reattach(ss, t) == ss

\* the SSE object the main effect creates (lines 197-221)
NewSse(s) ==
  [ conv |-> s.conv, sub |-> s.id, readyState |-> CONNECTING,
    final |-> FALSE,
    listeners  |-> 1,      \* 'message' listeners added (line 221)
    received   |-> 0,      \* frames received that are not final
    applied    |-> 0,      \* handler calls made for those frames
    reattachedFrames |-> 0, \* frames received while reattached
    retries    |-> 0,      \* refresh-and-retry attempts made
    errored    |-> FALSE,  \* errorHandler was called (line 352)
    refreshing |-> FALSE ] \* 'error' listener suspended at refreshToken

\* the main effect for a submission s with a user message (lines 110-358):
\* the registry check, the two localStorage markers, then a new transport
MainEffect(s, map, act, isSub) ==
  LET existingSSE == map[s.conv]
      same == [sses |-> sses, map |-> map, activeSSE |-> act,
               effectSse |-> NoSse, isSubmitting |-> isSub]
  IN  IF existingSSE # NoSse /\ sses[existingSSE].readyState = OPEN
        THEN [same EXCEPT !.activeSSE = existingSSE,
                          !.sses = Reattach(sses, existingSSE)]
      ELSE IF SubmissionKey(s.id) \in localStorage /\ act # NoSse
        THEN same
      ELSE IF SseKey(s.id) \in localStorage
        THEN same
      ELSE [ sses         |-> Append(sses, NewSse(s)),
             map          |-> [map EXCEPT ![s.conv] = Len(sses) + 1],
             activeSSE    |-> Len(sses) + 1,
             effectSse    |-> Len(sses) + 1,
             isSubmitting |-> TRUE ]

\* the effects of one commit of the hook: the cleanup of the previous main
\* effect, the explicit stop effect (lines 100-107), the main effect
Effects(s, map, act, eff, isSub) ==
  IF s = NoSubmission
    THEN [ sses         |-> sses,
           map          |-> Cleanup(map, eff),
           activeSSE    |-> act,
           effectSse    |-> NoSse,
           isSubmitting |-> IF act # NoSse THEN FALSE ELSE isSub ]
    ELSE MainEffect(s, Cleanup(map, eff), act, isSub)

Apply(r) ==
  /\ Len(r.sses) <= MaxSse
  /\ sses' = r.sses
  /\ globalSSEMap' = r.map
  /\ activeSSE' = r.activeSSE
  /\ effectSse' = r.effectSse
  /\ isSubmitting' = r.isSubmitting

\* the user sends a message in conversation c: ask() sets the submission
Submit(c) ==
  /\ mounted /\ ~isSubmitting
  /\ submitted < MaxSub
  /\ submission' = [id |-> submitted + 1, conv |-> c]
  /\ submitted' = submitted + 1
  /\ dirty' = TRUE
  /\ UNCHANGED <<isSubmitting, mounted, activeSSE, effectSse, sses,
                 globalSSEMap, localStorage, aborted, stopped>>
  /\ UNCHANGED <<serverVars, auxVars>>

\* the user stops the generation: stopGenerating clears the submission
\* (useSubmitMessage.ts line 251)
Stop ==
  /\ mounted /\ ~dirty
  /\ submission # NoSubmission
  /\ submission' = NoSubmission
  /\ dirty' = TRUE
  /\ stopped' = stopped \cup
       {[sub |-> submission.id, sse |-> activeSSE,
         live |-> activeSSE # NoSse /\ Live(activeSSE)]}
  /\ UNCHANGED <<isSubmitting, mounted, activeSSE, effectSse, sses,
                 globalSSEMap, localStorage, aborted, submitted>>
  /\ UNCHANGED <<serverVars, auxVars>>

\* React commits the render that follows a change of the submission and
\* runs the effects that depend on it
Commit ==
  /\ mounted /\ dirty
  /\ dirty' = FALSE
  /\ Apply(Effects(submission, globalSSEMap, activeSSE, effectSse,
                   isSubmitting))
  /\ UNCHANGED <<submission, mounted, localStorage, aborted, stopped,
                 submitted>>
  /\ UNCHANGED <<serverVars, auxVars>>

\* the user navigates away: the view unmounts, the cleanup of the main
\* effect runs, the state of the hook is dropped
Unmount ==
  /\ mounted
  /\ mounted' = FALSE
  /\ dirty' = FALSE
  /\ globalSSEMap' = Cleanup(globalSSEMap, effectSse)
  /\ activeSSE' = NoSse
  /\ effectSse' = NoSse
  /\ UNCHANGED <<submission, isSubmitting, sses, localStorage, aborted,
                 stopped, submitted>>
  /\ UNCHANGED <<serverVars, auxVars>>

\* the user navigates back: a new instance of the hook mounts and runs its
\* effects on the submission the atom holds
Mount ==
  /\ ~mounted
  /\ mounted' = TRUE
  /\ dirty' = FALSE
  /\ Apply(Effects(submission, globalSSEMap, NoSse, NoSse, isSubmitting))
  /\ UNCHANGED <<submission, localStorage, aborted, stopped, submitted>>
  /\ UNCHANGED <<serverVars, auxVars>>

\* the 'open' listener (lines 291-298)
SseOpen(t) ==
  /\ t \in Sses /\ sses[t].readyState = CONNECTING
  /\ sses' = [sses EXCEPT ![t].readyState = OPEN]
  /\ localStorage' = localStorage \cup
       {SubmissionKey(sses[t].sub), SseKey(sses[t].sub)}
  /\ UNCHANGED <<submission, dirty, isSubmitting, mounted, activeSSE,
                 effectSse, globalSSEMap, aborted, stopped, submitted>>
  /\ UNCHANGED <<serverVars, auxVars>>

\* the 'message' listener on a final frame (lines 224-247)
SseFinal(t) ==
  /\ t \in Sses /\ sses[t].readyState = OPEN /\ ~sses[t].final
  /\ sses' = [sses EXCEPT ![t].final = TRUE]
  /\ localStorage' = localStorage \
       {SubmissionKey(sses[t].sub), SseKey(sses[t].sub)}
  /\ submission' = NoSubmission
  /\ dirty' = (dirty \/ submission # NoSubmission)
  /\ isSubmitting' = FALSE
  /\ globalSSEMap' = [globalSSEMap EXCEPT ![sses[t].conv] = NoSse]
  /\ UNCHANGED <<mounted, activeSSE, effectSse, aborted, stopped, submitted>>
  /\ UNCHANGED <<serverVars, auxVars>>

\* the response of a transport that delivered its final frame ends
SseEnd(t) ==
  /\ t \in Sses /\ sses[t].readyState = OPEN /\ sses[t].final
  /\ sses' = [sses EXCEPT ![t].readyState = CLOSED]
  /\ UNCHANGED <<submission, dirty, isSubmitting, mounted, activeSSE,
                 effectSse, globalSSEMap, localStorage, aborted, stopped,
                 submitted>>
  /\ UNCHANGED <<serverVars, auxVars>>

\* the connection of a transport fails; the 'error' listener runs with an
\* event that carries no data (lines 320-354)
SseError(t) ==
  /\ t \in Sses /\ Live(t) /\ ~sses[t].final
  /\ sses' = [sses EXCEPT ![t].readyState = CLOSED, ![t].errored = TRUE]
  /\ localStorage' = localStorage \
       {SubmissionKey(sses[t].sub), SseKey(sses[t].sub)}
  /\ isSubmitting' = FALSE
  /\ globalSSEMap' = [globalSSEMap EXCEPT ![sses[t].conv] = NoSse]
  /\ UNCHANGED <<submission, dirty, mounted, activeSSE, effectSse, aborted,
                 stopped, submitted>>
  /\ UNCHANGED <<serverVars, auxVars>>

\* the mounted hook holds transport t, which an earlier main effect created
Reattached(t) == mounted /\ activeSSE = t /\ effectSse # t

\* the 'message' listener on a frame that is not final (lines 221-289):
\* every listener the transport holds calls the handler of the frame
SseMessage(t) ==
  /\ t \in Sses /\ sses[t].readyState = OPEN /\ ~sses[t].final
  /\ Total(sses, "received") < MaxFrames
  /\ sses' = [sses EXCEPT ![t].received = @ + 1,
                          ![t].applied = @ + sses[t].listeners,
                          ![t].reattachedFrames =
                             IF Reattached(t) THEN @ + 1 ELSE @]
  /\ UNCHANGED <<submission, dirty, isSubmitting, mounted, activeSSE,
                 effectSse, globalSSEMap, localStorage, aborted, stopped,
                 submitted>>
  /\ UNCHANGED <<serverVars, auxVars>>

\* the request of a transport is answered with 401: the 'error' listener
\* runs up to its await of request.refreshToken() (lines 320-324) and sse.js
\* closes the transport after dispatching the event
Sse401(t) ==
  /\ t \in Sses /\ sses[t].readyState = CONNECTING
  /\ Total(sses, "retries") < MaxRetry
  /\ sses' = [sses EXCEPT ![t].readyState = CLOSED, ![t].refreshing = TRUE]
  /\ UNCHANGED <<submission, dirty, isSubmitting, mounted, activeSSE,
                 effectSse, globalSSEMap, localStorage, aborted, stopped,
                 submitted>>
  /\ UNCHANGED <<serverVars, auxVars>>

\* request.refreshToken() returns: with a token the transport is restarted
\* (lines 325-333), without one the listener goes on as for any other error
\* (lines 334-353)
RefreshDone(t, ok) ==
  /\ t \in Sses /\ sses[t].refreshing
  /\ IF ok
       THEN /\ sses' = [sses EXCEPT ![t].readyState = CONNECTING,
                                    ![t].retries = @ + 1,
                                    ![t].refreshing = FALSE]
            /\ UNCHANGED <<localStorage, isSubmitting, globalSSEMap>>
       ELSE /\ sses' = [sses EXCEPT ![t].errored = TRUE,
                                    ![t].refreshing = FALSE]
            /\ localStorage' = localStorage \
                 {SubmissionKey(sses[t].sub), SseKey(sses[t].sub)}
            /\ isSubmitting' = FALSE
            /\ globalSSEMap' = [globalSSEMap EXCEPT ![sses[t].conv] = NoSse]
  /\ UNCHANGED <<submission, dirty, mounted, activeSSE, effectSse, aborted,
                 stopped, submitted>>
  /\ UNCHANGED <<serverVars, auxVars>>

ClientInit == NoRequest /\ SessionStart /\ ClientStart /\ AuxStart

ClientNext ==
  \/ \E c \in ConvIds : Submit(c)
  \/ Stop
  \/ Commit
  \/ Unmount
  \/ Mount
  \/ \E t \in 1..MaxSse : SseOpen(t)
  \/ \E t \in 1..MaxSse : SseFinal(t)
  \/ \E t \in 1..MaxSse : SseEnd(t)
  \/ \E t \in 1..MaxSse : SseError(t)

ClientSpec == ClientInit /\ [][ClientNext]_vars

\* the chat client with the frames of a response, for one conversation
StreamNext ==
  \/ Submit("c1")
  \/ Commit
  \/ Unmount
  \/ Mount
  \/ \E t \in 1..MaxSse : SseOpen(t)
  \/ \E t \in 1..MaxSse : SseMessage(t)
  \/ \E t \in 1..MaxSse : SseFinal(t)
  \/ \E t \in 1..MaxSse : SseEnd(t)

StreamSpec == ClientInit /\ [][StreamNext]_vars

\* the chat client with 401 responses, for one conversation
RetryNext ==
  \/ Submit("c1")
  \/ Commit
  \/ Unmount
  \/ Mount
  \/ \E t \in 1..MaxSse : SseOpen(t)
  \/ \E t \in 1..MaxSse : Sse401(t)
  \/ \E t \in 1..MaxSse, ok \in BOOLEAN : RefreshDone(t, ok)

RetrySpec == ClientInit /\ [][RetryNext]_vars

\* ------------------------------------------------------- content frames
\* a contentHandler that appends the text of the frame to the part
contentHandlerAppend(c, f) == [c EXCEPT ![f.index] = @ \o f.text]

\* contentHandler sets the content part the frame is tagged with
contentHandler(c, f) == [c EXCEPT ![f.index] = f.text]

\* the 'message' listener on a frame with a type field (lines 271-277)
ContentFrame(f) ==
  /\ Len(frames) < MaxContent
  /\ frames' = Append(frames, f)
  /\ textIndex' = IF f.index # textIndex THEN f.index ELSE textIndex
  /\ contentCalls' = Append(contentCalls, f)
  /\ content' = contentHandler(content, f)
  /\ replayed' = (frames # <<>> /\ frames[Len(frames)] = f)
  /\ UNCHANGED exceptContent

ContentNext == \E f \in ContentFrames : ContentFrame(f)

ContentSpec == ClientInit /\ [][ContentNext]_vars

\* ------------------------------------------------------ frame dispatch
\* the fields of a frame the 'message' listener tests
FrameFields == {"final", "created", "event", "sync", "type", "message"}

\* a listener that tests the type field before the sync field
HandlersTypeFirst(F) ==
  IF "final" \in F THEN <<"finalHandler">>
  ELSE IF "created" \in F THEN <<"createdHandler">>
  ELSE IF "event" \in F THEN <<"stepHandler">>
  ELSE IF "type" \in F THEN <<"contentHandler">>
  ELSE IF "sync" \in F THEN <<"syncHandler">>
  ELSE IF "message" \in F THEN <<"messageHandler">>
  ELSE <<>>

\* the handlers the 'message' listener calls for a frame whose non-null
\* fields are F (lines 224-288)
Handlers(F) ==
  IF "final" \in F THEN <<"finalHandler">>
  ELSE IF "created" \in F THEN <<"createdHandler">>
  ELSE IF "event" \in F THEN <<"stepHandler">>
  ELSE IF "sync" \in F THEN <<"syncHandler">>
  ELSE IF "type" \in F THEN <<"contentHandler">>
  ELSE IF "message" \in F THEN <<"messageHandler">>
  ELSE <<>>

\* the 'message' listener runs for a frame (lines 221-289)
MessageListener(F) ==
  /\ dispatched < MaxDispatch
  /\ frame' = F
  /\ handlerCalls' = Handlers(F)
  /\ dispatched' = dispatched + 1
  /\ UNCHANGED exceptDispatch

DispatchNext == \E F \in SUBSET FrameFields : MessageListener(F)

DispatchSpec == ClientInit /\ [][DispatchNext]_vars

\* ------------------------------------------------------- submitMessage
\* texts are sequences of characters
Texts  == { <<>>, <<" ">>, <<"h">>, <<" ", "h", " ">>, <<"y">> }
\* the clock advances by 1 ms, or to 1 ms before the end of the window
ClockSteps == {1, DebounceMs - 1}

\* String.prototype.trim on a sequence of characters
RECURSIVE TrimLeft(_)
TrimLeft(t) ==
  IF t # <<>> /\ Head(t) = " " THEN TrimLeft(Tail(t)) ELSE t
RECURSIVE TrimRight(_)
TrimRight(t) ==
  IF t # <<>> /\ t[Len(t)] = " " THEN TrimRight(SubSeq(t, 1, Len(t) - 1))
  ELSE t
Trim(t) == TrimRight(TrimLeft(t))

\* a guard whose window includes its end
IsDuplicateInclusive(last, text, at) ==
  last.text = text /\ at - last.ts <= DebounceMs

\* the same-text guard (line 40)
IsDuplicate(last, text, at) ==
  last.text = text /\ at - last.ts < DebounceMs

\* submitMessage(data) (lines 28-86)
submitMessage(data) ==
  /\ calls < MaxCalls
  /\ calls' = calls + 1
  /\ input' = data
  /\ LET normalizedText == IF data = NoData THEN <<>> ELSE Trim(data)
     IN  IF \/ data = NoData
            \/ Len(normalizedText) = 0
            \/ IsDuplicate(lastSubmitRef, normalizedText, clock)
           THEN UNCHANGED <<lastSubmitRef, askCalls, accepted>>
           ELSE /\ lastSubmitRef' = [text |-> normalizedText, ts |-> clock]
                /\ askCalls' = Append(askCalls, normalizedText)
                /\ accepted' = [text |-> normalizedText, ts |-> clock]
  /\ UNCHANGED <<clock, advances>>
  /\ UNCHANGED exceptSubmit

\* time passes between two calls
Advance(d) ==
  /\ advances < MaxAdvance
  /\ advances' = advances + 1
  /\ clock' = clock + d
  /\ UNCHANGED <<lastSubmitRef, askCalls, calls, input, accepted>>
  /\ UNCHANGED exceptSubmit

SubmitNext ==
  \/ \E data \in Texts \cup {NoData} : submitMessage(data)
  \/ \E d \in ClockSteps : Advance(d)

SubmitSpec == ClientInit /\ [][SubmitNext]_vars

\* ----------------------------------------------------- admin log client
\* fetchLogs (part_000 lines 48-195), called by the effect on page, limit
\* and search and by refetch; hasToken: localStorage holds a token
fetchLogs(hasToken) ==
  /\ fetches < MaxFetch
  /\ fetches' = fetches + 1
  /\ IF ~hasToken
       THEN /\ error' = TRUE
            /\ loading' = FALSE
            /\ UNCHANGED <<ess, esRef, isClosingRef>>
       ELSE /\ loading' = TRUE
            /\ error' = FALSE
            /\ isClosingRef' = (IF esRef # NoEs THEN TRUE ELSE isClosingRef)
            /\ ess' = Append(IF esRef # NoEs
                               THEN [ess EXCEPT ![esRef] = CLOSED]
                               ELSE ess, CONNECTING)
            /\ esRef' = Len(ess) + 1
  /\ UNCHANGED <<connected, esErrors>>
  /\ UNCHANGED exceptLogs

\* es.onopen (lines 90-94)
EsOpen(e) ==
  /\ e \in 1..Len(ess) /\ ess[e] = CONNECTING
  /\ ess' = [ess EXCEPT ![e] = OPEN]
  /\ connected' = TRUE
  /\ isClosingRef' = FALSE
  /\ UNCHANGED <<esRef, loading, error, fetches, esErrors>>
  /\ UNCHANGED exceptLogs

\* es.onmessage for a historical_complete record (lines 121-126)
EsComplete(e) ==
  /\ e \in 1..Len(ess) /\ ess[e] = OPEN
  /\ loading
  /\ loading' = FALSE
  /\ UNCHANGED <<ess, esRef, isClosingRef, error, connected, fetches,
                 esErrors>>
  /\ UNCHANGED exceptLogs

\* es.onmessage for an error record of the server (lines 178-182)
EsServerError(e) ==
  /\ e \in 1..Len(ess) /\ ess[e] = OPEN
  /\ ~error
  /\ error' = TRUE
  /\ loading' = FALSE
  /\ UNCHANGED <<ess, esRef, isClosingRef, connected, fetches, esErrors>>
  /\ UNCHANGED exceptLogs

\* es.onerror (lines 186-194) for a connection the client has not closed;
\* when the handler returns early the connection is left to the
\* EventSource, which retries (retry) or gives up
EsError(e, retry) ==
  /\ e \in 1..Len(ess) /\ ess[e] \in {CONNECTING, OPEN}
  /\ esErrors < MaxEsErrors
  /\ esErrors' = esErrors + 1
  /\ IF isClosingRef
       THEN /\ ess' = [ess EXCEPT ![e] = IF retry THEN CONNECTING ELSE CLOSED]
            /\ UNCHANGED <<esRef, loading, error, connected>>
       ELSE /\ error' = TRUE
            /\ connected' = FALSE
            /\ loading' = FALSE
            /\ ess' = IF esRef # NoEs THEN [ess EXCEPT ![esRef] = CLOSED]
                      ELSE ess
            /\ esRef' = NoEs
  /\ UNCHANGED <<isClosingRef, fetches>>
  /\ UNCHANGED exceptLogs

LogsNext ==
  \/ \E hasToken \in BOOLEAN : fetchLogs(hasToken)
  \/ \E e \in 1..MaxFetch : EsOpen(e)
  \/ \E e \in 1..MaxFetch : EsComplete(e)
  \/ \E e \in 1..MaxFetch : EsServerError(e)
  \/ \E e \in 1..MaxFetch, retry \in BOOLEAN : EsError(e, retry)

LogsSpec == ClientInit /\ [][LogsNext]_vars

\* ---------------------------------------------------- recovery polling
Msg(i, user, unf, at) ==
  [messageId |-> i, isCreatedByUser |-> user, unfinished |-> unf,
   createdAt |-> at, text |-> 0]

\* the conversations the view is opened on, as the store returns them,
\* oldest first: an unfinished response that is the latest message, one
\* that is followed by a user message, and a finished response
Conversations ==
  { << Msg(1, TRUE, FALSE, 0), Msg(2, FALSE, TRUE, 1) >>,
    << Msg(1, FALSE, TRUE, 0), Msg(2, TRUE, FALSE, 1) >>,
    << Msg(1, TRUE, FALSE, 0), Msg(2, FALSE, FALSE, 1) >> }

\* the clock when the view is opened: the first or the second message is
\* as old as the window, or 1 ms older
StartClocks == {RecencyWindowMs, RecencyWindowMs + 1, RecencyWindowMs + 2}

\* the messages the effect filters as unfinished (lines 289-291)
Unfinished(ms) ==
  {j \in 1..Len(ms) : ~ms[j].isCreatedByUser /\ ms[j].unfinished}
\* the last of them (line 297)
LatestUnfinished(ms) ==
  CHOOSE j \in Unfinished(ms) : \A k \in Unfinished(ms) : k <= j
\* the last message of the stable sort by createdAt (lines 300-306)
ActualLatest(ms) ==
  CHOOSE j \in 1..Len(ms) :
    \A k \in 1..Len(ms) :
      \/ ms[k].createdAt < ms[j].createdAt
      \/ (ms[k].createdAt = ms[j].createdAt /\ k <= j)

\* an effect that does not test the age of the message
ShouldPollAnyAge(ms, t) ==
  /\ Unfinished(ms) # {}
  /\ ActualLatest(ms) = LatestUnfinished(ms)

\* the guards of the polling effect (lines 284-323)
ShouldPoll(ms, t) ==
  /\ Unfinished(ms) # {}
  /\ ActualLatest(ms) = LatestUnfinished(ms)
  /\ ~(ms[LatestUnfinished(ms)].createdAt < t - RecencyWindowMs)

\* the cleanup the effect returned (lines 392-397)
PollCleanup ==
  IF hasCleanup
    THEN [interval |-> FALSE, timeout |-> FALSE, recovering |-> FALSE,
          ended |-> IF pollEnded = "no" /\ (pollInterval \/ timeout)
                      THEN "teardown" ELSE pollEnded]
    ELSE [interval |-> pollInterval, timeout |-> timeout,
          recovering |-> recovering, ended |-> pollEnded]

\* one run of the effect (lines 283-398), after the cleanup of the run
\* before it
PollEffect ==
  LET c == PollCleanup
  IN  IF ShouldPoll(cached, pollClock)
        THEN /\ pollGen < MaxPollGen
             /\ pollGen' = pollGen + 1
             /\ pollTarget' = cached[LatestUnfinished(cached)].messageId
             /\ recovering' = TRUE
             /\ refetches' = refetches \cup
                  {[gen |-> pollGen + 1,
                    target |-> cached[LatestUnfinished(cached)].messageId]}
             /\ pollInterval' = TRUE
             /\ timeout' = TRUE
             /\ hasCleanup' = TRUE
             /\ pollEnded' = "no"
        ELSE /\ pollInterval' = c.interval
             /\ timeout' = c.timeout
             /\ recovering' = c.recovering
             /\ pollEnded' = c.ended
             /\ hasCleanup' = FALSE
             /\ UNCHANGED <<pollGen, pollTarget, refetches>>

\* the view mounts and the effect runs
PollMount ==
  /\ ~helperMounted
  /\ helperMounted' = TRUE
  /\ messagesDirty' = FALSE
  /\ PollEffect
  /\ UNCHANGED <<cached, remote, pollClock, pollSteps>>
  /\ UNCHANGED exceptPoll

\* React commits the render that follows a change of _messages
PollCommit ==
  /\ helperMounted /\ messagesDirty
  /\ messagesDirty' = FALSE
  /\ PollEffect
  /\ UNCHANGED <<cached, remote, pollClock, helperMounted, pollSteps>>
  /\ UNCHANGED exceptPoll

\* the view unmounts and the cleanup runs
PollUnmount ==
  /\ helperMounted
  /\ helperMounted' = FALSE
  /\ messagesDirty' = FALSE
  /\ pollInterval' = PollCleanup.interval
  /\ timeout' = PollCleanup.timeout
  /\ recovering' = PollCleanup.recovering
  /\ pollEnded' = PollCleanup.ended
  /\ hasCleanup' = FALSE
  /\ UNCHANGED <<cached, remote, pollClock, pollGen, pollTarget, refetches,
                 pollSteps>>
  /\ UNCHANGED exceptPoll

\* the interval fires: pollForCompletion calls refetchQueries (line 383)
IntervalFire ==
  /\ pollInterval
  /\ refetches' = refetches \cup {[gen |-> pollGen, target |-> pollTarget]}
  /\ UNCHANGED <<cached, remote, pollClock, helperMounted, recovering,
                 messagesDirty, hasCleanup, pollInterval, timeout, pollGen,
                 pollTarget, pollEnded, pollSteps>>
  /\ UNCHANGED exceptPoll

\* a refetch resolves: the cache holds the messages of the store and the
\* then-callback of pollForCompletion runs (lines 344-373)
RefetchResolve(r) ==
  /\ r \in refetches
  /\ refetches' = refetches \ {r}
  /\ cached' = remote
  /\ messagesDirty' = (messagesDirty \/ (helperMounted /\ remote # cached))
  /\ IF \E j \in 1..Len(remote) :
          remote[j].messageId = r.target /\ ~remote[j].unfinished
       THEN /\ recovering' = FALSE
            /\ IF r.gen = pollGen
                 THEN /\ pollInterval' = FALSE
                      /\ timeout' = FALSE
                      /\ pollEnded' = IF pollEnded = "no" /\ pollInterval
                                        THEN "finished" ELSE pollEnded
                 ELSE UNCHANGED <<pollInterval, timeout, pollEnded>>
       ELSE UNCHANGED <<recovering, pollInterval, timeout, pollEnded>>
  /\ UNCHANGED <<remote, pollClock, helperMounted, hasCleanup, pollGen,
                 pollTarget, pollSteps>>
  /\ UNCHANGED exceptPoll

\* the ceiling timer fires (lines 386-390)
TimeoutFire ==
  /\ timeout
  /\ timeout' = FALSE
  /\ pollInterval' = FALSE
  /\ recovering' = FALSE
  /\ pollEnded' = IF pollEnded = "no" THEN "ceiling" ELSE pollEnded
  /\ UNCHANGED <<cached, remote, pollClock, helperMounted, messagesDirty,
                 hasCleanup, pollGen, pollTarget, refetches, pollSteps>>
  /\ UNCHANGED exceptPoll

\* the user presses stop while the polling shows the response as being
\* generated: stopGenerating clears the submission, which is null already
\* (line 251)
PollStop ==
  /\ helperMounted /\ recovering
  /\ pollEnded = "no"
  /\ pollEnded' = "stop"
  /\ UNCHANGED <<cached, remote, pollClock, helperMounted, recovering,
                 messagesDirty, hasCleanup, pollInterval, timeout, pollGen,
                 pollTarget, refetches, pollSteps>>
  /\ UNCHANGED exceptPoll

\* the generation goes on in the background: the unfinished response grows,
\* or is finished
StoreProgress(fin) ==
  /\ pollSteps < MaxPollSteps
  /\ pollSteps' = pollSteps + 1
  /\ Unfinished(remote) # {}
  /\ remote' = [remote EXCEPT
                  ![LatestUnfinished(remote)].text = @ + 1,
                  ![LatestUnfinished(remote)].unfinished = ~fin]
  /\ UNCHANGED <<cached, pollClock, helperMounted, recovering,
                 messagesDirty, hasCleanup, pollInterval, timeout, pollGen,
                 pollTarget, refetches, pollEnded>>
  /\ UNCHANGED exceptPoll

\* 1 ms passes
PollTick ==
  /\ pollSteps < MaxPollSteps
  /\ pollSteps' = pollSteps + 1
  /\ pollClock' = pollClock + 1
  /\ UNCHANGED <<cached, remote, helperMounted, recovering, messagesDirty,
                 hasCleanup, pollInterval, timeout, pollGen, pollTarget,
                 refetches, pollEnded>>
  /\ UNCHANGED exceptPoll

PollInit ==
  /\ NoRequest /\ SessionStart /\ ClientStart
  /\ ContentStart /\ DispatchStart /\ SubmitStart /\ LogsStart
  /\ \E ms \in Conversations, t \in StartClocks : PollStart(ms, t)
  /\ MoreStart

PollNext ==
  \/ PollMount
  \/ PollCommit
  \/ PollUnmount
  \/ IntervalFire
  \/ \E r \in refetches : RefetchResolve(r)
  \/ TimeoutFire
  \/ PollStop
  \/ \E fin \in BOOLEAN : StoreProgress(fin)
  \/ PollTick

PollSpec == PollInit /\ [][PollNext]_vars

\* ------------------------------------------------------ fetchConversations
\* api/server/routes/logs.js, lines 110-200, called on its own

\* the values of the page and limit parameters, integers around the clamps
Pages  == -1..MaxPage
Limits == {-1, 0, 1, 2, 100, 101}
\* a store of n conversations, the oldest update first
StoreOf(n) == [j \in 1..n |-> j]

\* fetchConversations without a search term, both pipelines returning
\* (lines 110-113, 167-200)
fetchConversations(q, store) ==
  LET total == Len(store)
      pages == TotalPages(q, total)
  IN  [ conversations |->
          buildConversationsAggregation(store, FALSE, {}, Skip(q),
                                        LimitNum(q, total)),
        currentPage |-> Min(PageNum(q), pages),
        totalPages  |-> pages,
        totalCount  |-> total,
        hasNext     |-> PageNum(q) < pages,
        hasPrev     |-> PageNum(q) > 1 ]

\* a paged request for the conversation list on a store of n conversations
FetchPage(p, l, n) ==
  /\ pageCalls < MaxPageCalls
  /\ pageQuery' = [all |-> FALSE, page |-> p, limit |-> l]
  /\ pageStore' = StoreOf(n)
  /\ pageResult' = fetchConversations(pageQuery', pageStore')
  /\ pageCalls' = pageCalls + 1
  /\ UNCHANGED <<baseVars, routeVars, cacheVars>>

PageNext == \E p \in Pages, l \in Limits, n \in 0..MaxTotal : FetchPage(p, l, n)

PageSpec == ClientInit /\ [][PageNext]_vars

\* ---------------------------------------------------------------- ChatRoute
\* client/src/routes/ChatRoute.tsx, the initialisation effect (lines 61-165)

RouteIds == {NEW_CONVO, "c1"}

\* one run of the effect (lines 61-157) on the state r of the component: the
\* guard on processedConversationId, shouldSetConvo, the mark, then the
\* branches that set the conversation
InitEffect(r) ==
  LET shouldSetConvo ==
        r.startupConfig /\ ~r.hasSet /\ r.modelsData # "initial"
      models == r.modelsData # "none"
      marked == [r EXCEPT !.processed = r.routeId]
      done(c) == [marked EXCEPT !.hasSet = TRUE, !.conversation = c]
  IN  IF r.processed = r.routeId THEN r
      ELSE IF ~shouldSetConvo THEN r
      ELSE IF r.storedConvo # NoConvo /\ r.routeId # NEW_CONVO
              /\ r.storedConvo = r.routeId
        THEN done(r.routeId)
      ELSE IF r.conversation \notin {NoConvo, NEW_CONVO}
        THEN done(r.conversation)
      ELSE IF r.routeId = NEW_CONVO /\ r.endpointsData /\ models
        THEN done(NEW_CONVO)
      ELSE IF r.convoData /\ r.endpointsData /\ models
        THEN done(r.routeId)
      ELSE IF r.routeId = NEW_CONVO /\ r.assistantLists
        THEN done(NEW_CONVO)
      ELSE IF r.assistantLists
        THEN done(IF r.convoData THEN r.routeId ELSE NEW_CONVO)
      ELSE marked

\* React commits a render and runs the effect, whose dependencies changed
RouteCommit ==
  /\ routeDirty
  /\ LET r == InitEffect([ routeId |-> routeId, storedConvo |-> storedConvo,
                           conversation |-> conversation,
                           startupConfig |-> startupConfig,
                           endpointsData |-> endpointsData,
                           modelsData |-> modelsData,
                           convoData |-> convoData,
                           assistantLists |-> assistantLists,
                           processed |-> processedConversationId,
                           hasSet |-> hasSetConversation ])
     IN  /\ processedConversationId' = r.processed
         /\ hasSetConversation' = r.hasSet
         /\ conversation' = r.conversation
  /\ routeDirty' = FALSE
  /\ UNCHANGED <<routeId, storedConvo, startupConfig, endpointsData,
                 modelsData, convoData, assistantLists>>
  /\ UNCHANGED <<baseVars, pageVars, cacheVars>>

\* useGetStartupConfig resolves
StartupLoaded ==
  /\ ~startupConfig
  /\ startupConfig' = TRUE
  /\ routeDirty' = TRUE
  /\ UNCHANGED <<routeId, storedConvo, conversation, endpointsData,
                 modelsData, convoData, assistantLists,
                 processedConversationId, hasSetConversation>>
  /\ UNCHANGED <<baseVars, pageVars, cacheVars>>

\* endpointsQuery resolves
EndpointsLoaded ==
  /\ ~endpointsData
  /\ endpointsData' = TRUE
  /\ routeDirty' = TRUE
  /\ UNCHANGED <<routeId, storedConvo, conversation, startupConfig,
                 modelsData, convoData, assistantLists,
                 processedConversationId, hasSetConversation>>
  /\ UNCHANGED <<baseVars, pageVars, cacheVars>>

\* modelsQuery resolves with the models of the server
ModelsLoaded ==
  /\ modelsData # "loaded"
  /\ modelsData' = "loaded"
  /\ routeDirty' = TRUE
  /\ UNCHANGED <<routeId, storedConvo, conversation, startupConfig,
                 endpointsData, convoData, assistantLists,
                 processedConversationId, hasSetConversation>>
  /\ UNCHANGED <<baseVars, pageVars, cacheVars>>

\* initialConvoQuery resolves; it is enabled for a conversation id while the
\* conversation is not set (lines 41-44)
ConvoLoaded ==
  /\ ~convoData
  /\ routeId # NEW_CONVO /\ ~hasSetConversation
  /\ convoData' = TRUE
  /\ routeDirty' = TRUE
  /\ UNCHANGED <<routeId, storedConvo, conversation, startupConfig,
                 endpointsData, modelsData, assistantLists,
                 processedConversationId, hasSetConversation>>
  /\ UNCHANGED <<baseVars, pageVars, cacheVars>>

\* both assistants lists are in assistantListMap
AssistantsLoaded ==
  /\ ~assistantLists
  /\ assistantLists' = TRUE
  /\ routeDirty' = TRUE
  /\ UNCHANGED <<routeId, storedConvo, conversation, startupConfig,
                 endpointsData, modelsData, convoData,
                 processedConversationId, hasSetConversation>>
  /\ UNCHANGED <<baseVars, pageVars, cacheVars>>

BaseStart ==
  /\ NoRequest /\ SessionStart /\ ClientStart
  /\ ContentStart /\ DispatchStart /\ SubmitStart /\ LogsStart
  /\ PollStart(<<>>, 0)

RouteInit ==
  /\ BaseStart /\ PageStart /\ CacheStart(NoParam, NoConvo)
  /\ \E id \in RouteIds, stored \in {NoConvo, "c1"},
        conv \in {NoConvo, NEW_CONVO, "c1"},
        models \in {"none", "initial"} :
       RouteStart(id, stored, conv, models)

RouteNext ==
  \/ RouteCommit
  \/ StartupLoaded
  \/ EndpointsLoaded
  \/ ModelsLoaded
  \/ ConvoLoaded
  \/ AssistantsLoaded

\* every pending render is committed, every query resolves
RouteSpec ==
  /\ RouteInit /\ [][RouteNext]_vars
  /\ WF_vars(RouteCommit)
  /\ WF_vars(StartupLoaded) /\ WF_vars(EndpointsLoaded)
  /\ WF_vars(ModelsLoaded) /\ WF_vars(ConvoLoaded)

\* ------------------------------------------- useChatHelpers, message cache
\* client/src/hooks/Messages/useSubmitMessage.ts, lines 143-194

ParamIds == {NoParam, NEW_CONVO, "c1"}
ConversationIds == {NoConvo, NEW_CONVO, "c1", "c2"}
\* the message lists of a call: empty, or one message of a conversation
MessageLists(n) ==
  {<<>>} \cup {<<[messageId |-> n, conversationId |-> c]>> :
                 c \in {NEW_CONVO, "c1", "c2"}}

\* line 143
queryParam(p, c) ==
  IF p = NEW_CONVO THEN p
  ELSE IF c # NoConvo THEN c
  ELSE IF p # NoParam THEN p
  ELSE ""

\* lines 161-166
messageConvoId(m) == IF Len(m) > 0 THEN m[1].conversationId ELSE NoConvo
targetConvoId(m, p, c) ==
  IF messageConvoId(m) # NoConvo /\ messageConvoId(m) # NEW_CONVO
    THEN messageConvoId(m)
    ELSE queryParam(p, c)

\* the keys setMessages writes (lines 177-188)
SetKeys(m, p, c) ==
  {targetConvoId(m, p, c)}
    \cup (IF c # NoConvo /\ c # NEW_CONVO /\ c # targetConvoId(m, p, c)
           THEN {c} ELSE {})
    \cup (IF targetConvoId(m, p, c) # NEW_CONVO
              /\ queryParam(p, c) = NEW_CONVO
           THEN {NEW_CONVO} ELSE {})

\* setMessages(messages) (lines 158-190)
setMessages(m) ==
  /\ setCalls < MaxSetCalls
  /\ cache' = [k \in CacheKeys |->
                IF k \in SetKeys(m, paramId, conversationId)
                  THEN m ELSE cache[k]]
  /\ lastMessages' = m
  /\ writtenKeys' = SetKeys(m, paramId, conversationId)
  /\ cachePc' = "set"
  /\ setCalls' = setCalls + 1
  /\ UNCHANGED <<paramId, conversationId, readBack>>
  /\ UNCHANGED <<baseVars, pageVars, routeVars>>

\* getMessages() (lines 192-194)
getMessages ==
  /\ cachePc # "got"
  /\ readBack' = cache[queryParam(paramId, conversationId)]
  /\ cachePc' = IF cachePc = "set" THEN "got" ELSE "idle"
  /\ UNCHANGED <<cache, paramId, conversationId, lastMessages, writtenKeys,
                 setCalls>>
  /\ UNCHANGED <<baseVars, pageVars, routeVars>>

\* the route or the conversation atom changes and the hook renders again
Rerender(p, c) ==
  /\ <<p, c>> # <<paramId, conversationId>>
  /\ paramId' = p
  /\ conversationId' = c
  /\ cachePc' = "idle"
  /\ UNCHANGED <<cache, lastMessages, writtenKeys, readBack, setCalls>>
  /\ UNCHANGED <<baseVars, pageVars, routeVars>>

CacheInit ==
  /\ BaseStart /\ PageStart
  /\ RouteStart(NEW_CONVO, NoConvo, NoConvo, "none")
  /\ \E p \in ParamIds, c \in ConversationIds : CacheStart(p, c)

CacheNext ==
  \/ \E m \in MessageLists(setCalls + 1) : setMessages(m)
  \/ getMessages
  \/ \E p \in ParamIds, c \in ConversationIds : Rerender(p, c)

CacheSpec == CacheInit /\ [][CacheNext]_vars

\* ------------------------------------------- useQueryLogs, the list client
\* src/unnamed/part_000, es.onmessage (lines 100-184) applied to the records
\* of a conversation-list session

\* the state of the hook the records change: tempConversations, logs, total
QueryLogsStart == [temp |-> <<>>, logs |-> <<>>, total |-> 0]

\* setTotal of the realtime_conversation branch (lines 130-139)
CountRealtimeRow(existed, total) == IF existed THEN total ELSE total + 1

\* es.onmessage for one record r; page and limit are the currentPage and
\* currentLimit of the request
onmessage(st, r, page, limit) ==
  IF r.type = "init"
    THEN IF r.count = 0
           THEN [st EXCEPT !.total = r.total, !.logs = <<>>]
           ELSE [st EXCEPT !.total = r.total]
  ELSE IF r.type = "historical_conversation"
    THEN [st EXCEPT !.temp = Append(@, r.id)]
  ELSE IF r.type = "historical_complete"
    THEN [st EXCEPT !.logs = st.temp]
  ELSE IF r.type = "realtime_conversation" /\ page = 1
    THEN LET existed == r.id \in Range(st.logs)
             \* the new row carries the latest updatedAt and sorts first
             merged  == <<r.id>> \o Without(st.logs, r.id)
         IN  [st EXCEPT !.logs = SubSeq(merged, 1, Min(limit, Len(merged))),
                        !.total = CountRealtimeRow(existed, @)]
  ELSE st

\* the state of the hook after the records of o, in order
RECURSIVE QueryLogsAfter(_, _, _)
QueryLogsAfter(o, page, limit) ==
  IF o = <<>> THEN QueryLogsStart
  ELSE onmessage(QueryLogsAfter(SubSeq(o, 1, Len(o) - 1), page, limit),
                 o[Len(o)], page, limit)

\* ============================================================== properties
Written == 1..Len(out)
CountType(t) == Cardinality({j \in Written : out[j].type = t})
CountRec(t, i) ==
  Cardinality({j \in Written : out[j].type = t /\ out[j].id = i})

HistoricalTypes == {"historical_conversation", "historical_message"}
RealtimeTypes   == {"realtime_conversation", "realtime_message"}
ControlTypes    == {"init", "historical_complete", "warning"}
AfterMarkerTypes ==
  RealtimeTypes \cup {"conversation_update", "heartbeat"} \cup ControlTypes

CountHistorical(i) ==
  CountRec("historical_conversation", i) + CountRec("historical_message", i)
CountRealtime(i) ==
  CountRec("realtime_conversation", i) + CountRec("realtime_message", i)

\* no change handler is suspended at an await
Quiescent == \A i \in IDS : inflight[i] = 0

BacklogFailures == {"count", "fetch", "find", "users"}
WatchFailures   == {"watch", "convoWatch"}

\* C1: every historical record is written before the historical_complete
\* marker, and every record written after the marker is a realtime, update,
\* heartbeat or control record (stated for the runs in which no operation
\* other than opening the subscription fails).
C1_BacklogThenLive ==
  failures \subseteq WatchFailures =>
    \A k \in Written :
      out[k].type = "historical_complete" =>
        \A j \in Written :
          /\ out[j].type \in HistoricalTypes => j < k
          /\ j > k => out[j].type \in AfterMarkerTypes

C3_NoRealtimeAfterHistorical ==
  \A i \in IDS : CountHistorical(i) > 0 => CountRealtime(i) = 0

\* C4: every record matching the filter that was inserted while the session
\* was open has been delivered as a historical or a realtime record once the
\* open subscription has nothing left to deliver and every handler returned.
C4_NoRecordLost ==
  ( /\ pc = "live"
    /\ ~clientGone
    /\ failures = {}
    /\ changeStream = "open"
    /\ pending = {}
    /\ Quiescent )
  => \A i \in insertedOpen :
       ((~search) \/ i \in matches)
         => CountHistorical(i) + CountRealtime(i) >= 1

\* C5: in the live phase of a session that is not closed, the heartbeat
\* interval is armed and no more than the heartbeat period (30 s) has passed
\* since the last heartbeat, so every interval of that length contains one.
C5_HeartbeatLiveness ==
  (pc = "live" /\ ~ended) =>
    (heartbeatInterval /\ now - lastBeat <= Ticks(30000))

\* a live, open session has written a heartbeat after the marker and a full
\* period has passed since
C5_Witness ==
  /\ pc = "live" /\ ~ended
  /\ now - lastBeat = Ticks(30000)
  /\ \E j, k \in Written :
       /\ j < k
       /\ out[j].type = "historical_complete"
       /\ out[k].type = "heartbeat"

\* the session-lifetime ceiling of the specification (section 4.3), scaled
\* to the model horizon; the routes define none
SessionCeiling == MaxSteps - 1

\* C6: a session that has been open for longer than the session-lifetime
\* ceiling is closed, also when the client never disconnects (stated for the
\* live phase of the runs in which no operation fails).
C6_SessionTimeout ==
  (pc = "live" /\ failures = {} /\ now - openedAt > SessionCeiling) => ended

\* C7: once the client has disconnected and the route handler has returned,
\* the heartbeat interval is cleared and every change subscription the
\* session opened is closed (stated for the runs in which no operation fails).
C7_CleanupOnDisconnect ==
  (clientGone /\ pc = "live" /\ failures = {}) =>
    /\ ~heartbeatInterval
    /\ changeStream \notin {"open", "errored"}
    /\ convoChangeStream \notin {"open", "errored"}

\* C8: if the backlog query (count or fetch) failed, the session wrote an init
\* record with zero backlog and no historical record, and went on to the live
\* phase with the subscription opened and the heartbeat running (stated for
\* the runs in which nothing but the backlog query fails).
C8_FetchFailureDegrades ==
  ( /\ pc = "live"
    /\ failures \cap BacklogFailures # {}
    /\ failures \subseteq BacklogFailures )
  => /\ \E j \in Written : out[j].type = "init" /\ out[j].count = 0
     /\ \A i \in IDS : CountHistorical(i) = 0
     /\ ~ended => (changeStream = "open" /\ heartbeatInterval)

\* C9: a session in the live phase has written exactly one
\* historical_complete record, after its last historical record and before
\* any realtime or update record (stated for the runs in which nothing but
\* the backlog query fails).
C9_MarkerExactlyOnce ==
  (pc = "live" /\ failures \subseteq BacklogFailures) =>
    /\ CountType("historical_complete") = 1
    /\ \A k \in Written :
         out[k].type = "historical_complete" =>
           \A j \in Written :
             /\ out[j].type \in HistoricalTypes => j < k
             /\ out[j].type \in RealtimeTypes \cup {"conversation_update"}
                  => j > k

\* C10: if opening the live subscription failed, the session wrote exactly
\* one warning control record and no error record, and it stays in the live
\* phase with the heartbeat running (stated for the runs in which nothing
\* else fails).
C10_WarningOnWatchFailure ==
  ( /\ pc = "live"
    /\ failures \cap WatchFailures # {}
    /\ failures \subseteq WatchFailures ) =>
    /\ CountType("warning") = 1
    /\ CountType("error") = 0
    /\ ~ended => heartbeatInterval

LiveListTypes == {"realtime_conversation", "conversation_update"}
CountLive(i) ==
  CountRec("realtime_conversation", i) + CountRec("conversation_update", i)

\* C11 as stated: in a list session with a search term, every realtime or
\* update record written in the live phase is for a change event that arrived
\* while the conversation matched the term; an event that arrived while it
\* did not match writes no record (stated for the runs in which no operation
\* fails).
C11_MatchesAtEvent ==
  (search /\ failures = {}) => \A w \in liveWrites : w.atEvent

\* C11 as amended: in a list session with a search term, every realtime or
\* update record written in the live phase is for a conversation that matches
\* the term when the handler evaluates it (after its lookup returned), and
\* every such record in the output was written by a handler that found a
\* match.
C11_MatchesAtLookup ==
  search =>
    /\ \A w \in liveWrites : w.atLookup
    /\ \A j \in Written :
         out[j].type \in LiveListTypes =>
           \E w \in liveWrites : w.id = out[j].id

\* a search session forwarded an event of a matching conversation and dropped
\* the event of a conversation that does not match
C11_Witness ==
  /\ search /\ failures = {} /\ Quiescent
  /\ \E w \in liveWrites : w.atLookup /\ w.atEvent
  /\ \E i \in IDS :
       /\ delivered[i] >= 1
       /\ i \notin matches
       /\ CountLive(i) = 0

\* position of record x in the store s
Pos(s, x) == CHOOSE j \in 1..Len(s) : s[j] = x

\* C12: the historical records of a session are written in chronological
\* order, oldest first, with respect to the store the backlog query read
\* (stated for the runs in which no operation fails).
C12_OldestFirst ==
  failures = {} =>
    \A j, k \in Written :
      ( /\ j < k
        /\ out[j].type \in HistoricalTypes
        /\ out[k].type \in HistoricalTypes )
      => Pos(fetchedFrom, out[j].id) < Pos(fetchedFrom, out[k].id)

CountTokenUpdate(i) ==
  Cardinality({j \in Written : out[j] = TokenUpdateRec(i)})

C14_RegistryHoldsOpen ==
  (pc = "live" /\ failures = {}) =>
    (("res" \in clients) <=> ~clientGone)

\* a record was written after the client had disconnected: a write to a
\* closed connection
WroteAfterClose == clientGone /\ Len(out) > outAtClose

\* C15: a session that wrote to a closed connection is ended and cleaned up:
\* its response is ended, its heartbeat interval cleared, its subscriptions
\* closed and its registration removed (stated for the live phase of the
\* runs in which no operation fails).
C15_WriteFailureEndsSession ==
  (WroteAfterClose /\ pc = "live" /\ failures = {}) =>
    /\ ended
    /\ ~heartbeatInterval
    /\ changeStream # "open" /\ convoChangeStream # "open"
    /\ "res" \notin clients

\* fetchConversations has returned and neither of its pipelines failed
FetchedAll ==
  /\ kind = "conv" /\ query.all
  /\ pc \in {"emit", "live"}
  /\ failures \cap {"count", "fetch"} = {}

\* the result is the n most recently written records of the matching set
NewestOf(result, matching, n) ==
  /\ Len(result) = Min(Len(matching), n)
  /\ \A j \in 1..Len(result) : result[j] = matching[Len(matching) + 1 - j]

Committed == mounted /\ ~dirty

\* C17: once the effects of an explicit stop of a submission with a live
\* transport have run, the transport is closed, abortConversation was called
\* for its conversation, and isSubmitting is false.
C17_ExplicitStopClosesAndAborts ==
  \A x \in stopped :
    (x.live /\ Committed /\ submission = NoSubmission) =>
      /\ sses[x.sse].readyState = CLOSED
      /\ sses[x.sse].conv \in aborted
      /\ ~isSubmitting

\* the main effect's cleanup ran for transport t in this step while t was
\* open and had not delivered its final frame, and the submission of t was
\* not stopped explicitly
TornDownOpen(t) ==
  /\ effectSse = t /\ effectSse' # t
  /\ sses[t].readyState = OPEN /\ ~sses[t].final
  /\ sses[t].sub \notin {x.sub : x \in stopped}

\* C18: when the main effect of an open transport is torn down without an
\* explicit stop (the view unmounts or the submission changes), the
\* transport is not closed, no abort is sent, and the registry holds the
\* transport under its conversation id afterwards.
C18_TeardownKeepsTransport ==
  [][ \A t \in Sses :
        TornDownOpen(t) =>
          /\ sses'[t].readyState = OPEN
          /\ aborted' = aborted
          /\ globalSSEMap'[sses[t].conv] = t ]_vars

\* C19: no submission is both explicitly stopped and still streaming in the
\* background, its transport connecting or open, its final frame not yet
\* delivered, and held by the registry.
C19_CancelExcludesBackground ==
  \A x \in stopped :
    (x.live /\ Committed) =>
      ~(Streaming(x.sse) /\ globalSSEMap[sses[x.sse].conv] = x.sse)

LiveOf(c) == {t \in Sses : sses[t].conv = c /\ Streaming(t)}

\* C20: at most one transport that is connecting or open (and has not yet
\* delivered its final frame) exists per conversation id.
C20_OneLiveTransportPerConversation ==
  \A c \in ConvIds : Cardinality(LiveOf(c)) <= 1

\* C21: every frame received on a transport has called its handler exactly
\* once, however often the transport was backgrounded and reattached: the
\* number of handler calls equals the number of frames received.
C21_FrameAppliedOnce ==
  \A t \in Sses : sses[t].applied = sses[t].received

\* a transport received a frame before it was reattached and a frame while
\* it was reattached, and made one handler call for each
C21_Witness ==
  \E t \in Sses :
    /\ sses[t].reattachedFrames >= 1
    /\ sses[t].received > sses[t].reattachedFrames
    /\ sses[t].applied = sses[t].received

Refreshed(t) ==
  /\ sses[t].refreshing /\ ~sses'[t].refreshing
  /\ sses'[t].retries = sses[t].retries + 1

\* C23: when the refresh that follows a 401 returns a token, the same
\* transport is restarted and no other is created, errorHandler is not
\* called, isSubmitting and the localStorage markers stay as they are, and
\* the registry holds the transport under its conversation id.
C23_RefreshRestartsInPlace ==
  [][ \A t \in Sses :
        Refreshed(t) =>
          /\ sses'[t].readyState = CONNECTING
          /\ Len(sses') = Len(sses)
          /\ ~sses'[t].errored
          /\ isSubmitting' = isSubmitting
          /\ localStorage' = localStorage
          /\ globalSSEMap'[sses[t].conv] = t ]_vars

\* C24: no transport makes more than one refresh-and-retry attempt.
C24_OneRetryPerSubmission ==
  \A t \in Sses : sses[t].retries <= 1

\* the final frame of the latest submission was processed on transport t
\* and the effects that follow the clearing of the submission have run
FinalProcessed(t) ==
  /\ sses[t].final
  /\ sses[t].sub = submitted
  /\ Committed

\* C27: once the final frame of a submission was processed and the effects
\* that follow have run, the client is idle: the submission is null,
\* isSubmitting is false, the registry holds no entry for the conversation,
\* and both localStorage markers of the submission are removed.
C27_IdleAfterFinal ==
  \A t \in Sses :
    FinalProcessed(t) =>
      /\ submission = NoSubmission
      /\ ~isSubmitting
      /\ globalSSEMap[sses[t].conv] = NoSse
      /\ SubmissionKey(sses[t].sub) \notin localStorage
      /\ SseKey(sses[t].sub) \notin localStorage

\* the fields that select a handler, in the order of the claim
FieldOrder == <<"final", "created", "event", "sync", "type">>
HandlerOf ==
  [ final |-> "finalHandler", created |-> "createdHandler",
    event |-> "stepHandler", sync |-> "syncHandler",
    type |-> "contentHandler" ]
Present(F) == {i \in 1..Len(FieldOrder) : FieldOrder[i] \in F}
FirstPresent(F) == CHOOSE i \in Present(F) : \A j \in Present(F) : i <= j

\* C29: the listener calls exactly one handler for a frame, the one of the
\* first field present in the order final, created, event, sync, type; for a
\* frame with none of them it calls messageHandler if the frame has a
\* message field and no handler otherwise.
C29_OneHandlerPerFrame ==
  dispatched > 0 =>
    IF Present(frame) # {}
      THEN handlerCalls = <<HandlerOf[FieldOrder[FirstPresent(frame)]]>>
    ELSE IF "message" \in frame
      THEN handlerCalls = <<"messageHandler">>
    ELSE handlerCalls = <<>>

\* a frame with a sync, a type and a message field went to syncHandler alone
C29_Witness ==
  /\ frame = {"sync", "type", "message"}
  /\ handlerCalls = <<"syncHandler">>

\* the text of a call without its leading and trailing blanks; a call
\* without data has none
Trimmed(data) ==
  IF data = NoData THEN <<>>
  ELSE LET first == {i \in 1..Len(data) : data[i] # " "}
       IN  IF first = {} THEN <<>>
           ELSE SubSeq(data, CHOOSE i \in first : \A j \in first : i <= j,
                             CHOOSE i \in first : \A j \in first : i >= j)

\* C30: a call of submitMessage whose trimmed text is empty does not call
\* ask; a call whose trimmed text is that of the last accepted call and that
\* comes less than 1500 ms after it does not call ask; every other call
\* calls ask once, with the trimmed text, and is the last accepted call
\* afterwards.
C30_DuplicateSubmitGuard ==
  [][ calls' = calls + 1 =>
        LET text == Trimmed(input')
        IN  IF \/ text = <<>>
               \/ (text = accepted.text /\ clock - accepted.ts < 1500)
              THEN askCalls' = askCalls /\ accepted' = accepted
              ELSE /\ askCalls' = Append(askCalls, text)
                   /\ accepted' = [text |-> text, ts |-> clock] ]_vars

\* of three calls one was refused, and the last one, with blanks around the
\* text of the accepted first call and 1500 ms after it, was accepted
C30_Witness ==
  /\ calls = 3
  /\ Len(askCalls) = 2
  /\ askCalls[1] = <<"h">> /\ askCalls[2] = <<"h">>
  /\ clock = 1500
  /\ accepted.ts = 1500
  /\ input = <<" ", "h", " ">>

\* C28: whenever a connection of the admin log client that the client has
\* not closed fails, before or after it opened, the hook is left with
\* loading false, connected false and an error set.
C28_FailureSurfaces ==
  [][ esErrors' = esErrors + 1 =>
        (~loading' /\ ~connected' /\ error') ]_vars

\* C25: once the polling that was started has ended, because the message
\* was seen finished, the effect was torn down, the user stopped explicitly
\* or the ceiling elapsed, the interval and the ceiling timer are cancelled
\* (no timer callback can run any more) and isSubmitting is false.
C25_PollingSelfCancels ==
  pollEnded # "no" =>
    (~pollInterval /\ ~timeout /\ ~recovering)

\* the same for the three ends other than the explicit stop
PollingEndsOtherThanStop ==
  pollEnded \in {"finished", "teardown", "ceiling"} =>
    (~pollInterval /\ ~timeout /\ ~recovering)

\* the message polling was started for, in the cache
TargetIndex == CHOOSE j \in 1..Len(cached) : cached[j].messageId = pollTarget'

Served(s) ==
  \/ \E t \in Sses : sses[t].sub = s.id
  \/ activeSSE # NoSse /\ sses[activeSSE].conv = s.conv

C32_NoWriteAfterClose == ended => Len(out) = outAtClose

RealtimeOrder ==
  LET IsRealtime(r) == r.type = "realtime_message"
      recs == SelectSeq(out, IsRealtime)
  IN  [j \in 1..Len(recs) |-> recs[j].id]

\* C34: in the messages session the realtime_message records are written in
\* the order in which the feed delivered their change events.
C34_RealtimeInDeliveryOrder ==
  kind = "msg" =>
    \A j, k \in 1..Len(RealtimeOrder) :
      j < k => Pos(deliveryOrder, RealtimeOrder[j])
                 < Pos(deliveryOrder, RealtimeOrder[k])

\* the positions of the init records written
InitPositions == {j \in Written : out[j].type = "init"}

\* C35: a session that has finished its backlog has written exactly one
\* init record, the init record precedes every historical record, and when
\* the marker is written the number of historical records equals the count
\* field of the init record.
C35_InitCountsBacklog ==
  pc = "live" =>
    /\ Cardinality(InitPositions) = 1
    /\ \A j \in InitPositions, k \in Written :
         out[k].type \in HistoricalTypes => j < k
    /\ CountType("historical_complete") >= 1 =>
         \A j \in InitPositions :
           out[j].count = Cardinality({k \in Written :
                                        out[k].type \in HistoricalTypes})

\* the first two parts of C35 alone: one init record, written before every
\* historical record
InitOnceAndFirst ==
  pc = "live" =>
    /\ Cardinality(InitPositions) = 1
    /\ \A j \in InitPositions, k \in Written :
         out[k].type \in HistoricalTypes => j < k

\* C36: for every page, limit and total count a paged fetchConversations
\* reports totalPages = max(1, ceil(total / limit)) for the limit clamped to
\* 1..100, a currentPage within 1..totalPages, hasNext and hasPrev in
\* agreement with currentPage, and returns the records at offset
\* (currentPage - 1) * limit of the list, newest first.
C36_PaginationAgrees ==
  pageCalls > 0 =>
    LET r      == pageResult
        limit  == Min(Max(pageQuery.limit, 1), 100)
        sorted == Reverse(pageStore)
        offset == (r.currentPage - 1) * limit
    IN  /\ r.totalPages = Max(1, CeilDiv(Len(pageStore), limit))
        /\ 1 <= r.currentPage /\ r.currentPage <= r.totalPages
        /\ r.hasNext = (r.currentPage < r.totalPages)
        /\ r.hasPrev = (r.currentPage > 1)
        /\ r.conversations =
             SubSeq(sorted, offset + 1, Min(offset + limit, Len(sorted)))

\* the same for the requests whose page is not beyond the last page
PaginationAgreesInRange ==
  (pageCalls > 0 /\ pageQuery.page <= pageResult.totalPages) =>
    LET r      == pageResult
        limit  == Min(Max(pageQuery.limit, 1), 100)
        sorted == Reverse(pageStore)
        offset == (r.currentPage - 1) * limit
    IN  /\ r.totalPages = Max(1, CeilDiv(Len(pageStore), limit))
        /\ 1 <= r.currentPage /\ r.currentPage <= r.totalPages
        /\ r.hasNext = (r.currentPage < r.totalPages)
        /\ r.hasPrev = (r.currentPage > 1)
        /\ r.conversations =
             SubSeq(sorted, offset + 1, Min(offset + limit, Len(sorted)))

\* the total of the list client that has received every record written
ClientTotal == QueryLogsAfter(out, query.page, query.limit).total
\* the total of the init record written
InitTotal == LET j == CHOOSE k \in InitPositions : TRUE IN out[j].total
\* the conversations the store holds that the backlog query did not read
CreatedSinceSnapshot == Range(db) \ Range(fetchedFrom)

\* C37: in a conversation-list session viewed on page 1, once the events
\* of the conversations created since the backlog query are delivered and
\* handled, the total of the client is the total of the init record plus
\* the number of those conversations; a new message of a conversation that
\* the backlog query read adds nothing (stated for the sessions without a
\* search term in which no operation fails).
C37_TotalCountsNewConversations ==
  ( /\ kind = "conv" /\ query.page = 1 /\ ~search
    /\ pc = "live" /\ Quiescent /\ failures = {}
    /\ \A i \in CreatedSinceSnapshot : delivered[i] >= 1 )
  => ClientTotal = InitTotal + Cardinality(CreatedSinceSnapshot)

\* the startup config, the endpoints data and the models data are loaded
RouteDataLoaded == startupConfig /\ endpointsData /\ modelsData = "loaded"

\* C38: in ChatRoute, for a fixed route conversation id, once the startup
\* config, the endpoints data and the models data have loaded, the
\* initialisation effect eventually sets the conversation, whatever the
\* order in which the data arrived.
C38_ConversationEventuallySet == RouteDataLoaded ~> hasSetConversation

\* C39: setMessages writes the messages of a real conversation only to the
\* cache key of that conversation and to the 'new' placeholder key.
C39_WritesOwnKeyOnly ==
  ( /\ setCalls > 0
    /\ messageConvoId(lastMessages) \notin {NoConvo, NEW_CONVO} )
  => writtenKeys \subseteq {messageConvoId(lastMessages), NEW_CONVO}

\* C40: getMessages called right after setMessages(m), m not empty, returns
\* m, whatever the route parameter and the current conversation id.
C40_SetGetRoundTrip ==
  (cachePc = "got" /\ lastMessages # <<>>) => readBack = lastMessages

====
